---------------------------- MODULE Spec2Model ----------------------------
(***************************************************************************)
(* A model of ConvolutionalNodes.h: the ConvolutionNode and the            *)
(* PoolingNodeBase of the computation network library.                     *)
(*                                                                         *)
(* A matrix is a record [rows, cols, data] whose data is the flat          *)
(* column-major storage: element (r, c), both counted from 0, is           *)
(* data[c * rows + r + 1].  A sample of an image layout [w, h, c] is one   *)
(* column; element (channel ch, row y, column x) of the image has the flat *)
(* index ch + c * (y + h * x), as the header comment of the class says.    *)
(***************************************************************************)
EXTENDS Integers, Sequences, FiniteSets, TLC

\* ------------------------------------------------------------------ bounds

\* Widths (input, kernel/window, horizontal stride) range over 1..MaxWidth.
MaxWidth == 3
\* Heights (input, kernel/window, vertical stride) range over 1..MaxHeight.
MaxHeight == 2
\* Minibatches hold 1..MaxBatch samples.
MaxBatch == 3
\* At most MaxSteps forward/backward calls follow a validation.
MaxSteps == 3

\* Frame range selecting all frames of the minibatch (FrameRange::IsAllFrames).
AllFrames == -1

Min(a, b) == IF a < b THEN a ELSE b

\* ---------------------------------------------------------------- matrices

\* Sum of the first n elements of a sequence of integers.
RECURSIVE SumTo(_, _)
SumTo(s, n) == IF n = 0 THEN 0 ELSE s[n] + SumTo(s, n - 1)

\* The function f on 1..n as the sequence of its values.
Vector(f) == f \o <<>>

\* A rows x cols matrix of zeros (Matrix::Resize of a fresh matrix).
Zeros(rows, cols) ==
    [rows |-> rows, cols |-> cols, data |-> Vector([k \in 1..(rows * cols) |-> 0])]

\* Test data: a rows x cols matrix of small integers of both signs that
\* depend on the position and on seed.
GenMatrix(rows, cols, seed) ==
    [rows |-> rows, cols |-> cols,
     data |-> Vector([k \in 1..(rows * cols) |-> ((k * k + seed * k + seed) % 7) - 3])]

\* Element (r, c) of M, both counted from 0.
At(M, r, c) == M.data[c * M.rows + r + 1]

\* Matrix::GetNumRows, Matrix::GetNumCols, Matrix::HasNoElements.
GetNumRows(M) == M.rows
GetNumCols(M) == M.cols
HasNoElements(M) == M.rows * M.cols = 0

\* Matrix::Reshape: the same storage under new extents.
Reshape(M, rows, cols) == [rows |-> rows, cols |-> cols, data |-> M.data]

\* Matrix::ColumnSlice(start, n): columns start .. start + n - 1 of M.
ColumnSlice(M, start, n) ==
    [rows |-> M.rows, cols |-> n,
     data |-> Vector([k \in 1..(M.rows * n) |-> M.data[start * M.rows + k]])]

\* Writing through a column slice: M with columns start.. replaced by S.
SetColumnSlice(M, start, S) ==
    [M EXCEPT !.data =
        Vector([k \in 1..Len(M.data) |->
            IF k > start * M.rows /\ k <= (start + S.cols) * M.rows
            THEN S.data[k - start * M.rows]
            ELSE M.data[k]])]

\* Element (r, c) of op(M), op the transposition when trans.
OpAt(M, trans, r, c) == IF trans THEN At(M, c, r) ELSE At(M, r, c)
OpRows(M, trans) == IF trans THEN M.cols ELSE M.rows
OpCols(M, trans) == IF trans THEN M.rows ELSE M.cols

\* Matrix::Multiply(a, transA, b, transB, c): c = op(a) * op(b).
Multiply(a, transA, b, transB) ==
    LET rows == OpRows(a, transA)
        cols == OpCols(b, transB)
        inner == OpCols(a, transA)
    IN [rows |-> rows, cols |-> cols,
        data |-> Vector([k \in 1..(rows * cols) |->
            LET r == (k - 1) % rows
                c == (k - 1) \div rows
            IN SumTo([j \in 1..inner |->
                   OpAt(a, transA, r, j - 1) * OpAt(b, transB, j - 1, c)], inner)])]

\* Matrix::MultiplyAndAdd(a, transA, b, transB, c): c += op(a) * op(b).
MultiplyAndAdd(a, transA, b, transB, c) ==
    LET p == Multiply(a, transA, b, transB)
    IN [c EXCEPT !.data = Vector([k \in 1..Len(c.data) |-> c.data[k] + p.data[k]])]


\* ------------------------------------------------- packing primitives

\* Flat index of image element (channel ch, row y, column x) of a sample
\* whose layout has h rows and c channels.
ImageIndex(ch, y, x, h, c) == ch + c * (y + h * x)

\* Matrix::AssignPackedConvolutionInput: the packed form of inputSubBatch.
\* Column s * outW * outH + (oy + outH * ox) holds the receptive field of
\* output position (ox, oy) of sample s; row ch * kW * kH + kx * kH + ky
\* holds its element (ch, ky, kx), or 0 where that falls outside the input
\* (only with zeroPadding, which centres the kernel on the position).
AssignPackedConvolutionInput(inputSubBatch, inW, inH, inC, outW, outH, kW, kH, sH, sV, zeroPadding) ==
    LET rows == kW * kH * inC
        cols == outW * outH * inputSubBatch.cols
        padX == IF zeroPadding THEN kW \div 2 ELSE 0
        padY == IF zeroPadding THEN kH \div 2 ELSE 0
    IN [rows |-> rows, cols |-> cols,
        data |-> Vector([k \in 1..(rows * cols) |->
            LET r == (k - 1) % rows
                col == (k - 1) \div rows
                s == col \div (outW * outH)
                pos == col % (outW * outH)
                ox == pos \div outH
                oy == pos % outH
                ch == r \div (kW * kH)
                kx == (r % (kW * kH)) \div kH
                ky == r % kH
                x == ox * sH + kx - padX
                y == oy * sV + ky - padY
            IN IF x >= 0 /\ x < inW /\ y >= 0 /\ y < inH
               THEN At(inputSubBatch, ImageIndex(ch, y, x, inH, inC), s)
               ELSE 0])]

\* Matrix::UnpackConvolutionInput: the scatter-add inverse of the packing.
\* Every element of inputGradientSubBatch gains the sum of the entries of
\* packed that the packing would have copied from it.
UnpackConvolutionInput(packed, inputGradientSubBatch, inW, inH, inC, outW, outH, kW, kH, sH, sV, zeroPadding) ==
    LET padX == IF zeroPadding THEN kW \div 2 ELSE 0
        padY == IF zeroPadding THEN kH \div 2 ELSE 0
        g == inputGradientSubBatch
    IN [g EXCEPT !.data = Vector([k \in 1..Len(g.data) |->
            LET id == (k - 1) % g.rows
                s == (k - 1) \div g.rows
                ch == id % inC
                y == (id \div inC) % inH
                x == id \div (inC * inH)
            IN g.data[k] + SumTo([j \in 1..(outW * outH * kW * kH) |->
                   LET pos == (j - 1) \div (kW * kH)
                       kpos == (j - 1) % (kW * kH)
                       ox == pos \div outH
                       oy == pos % outH
                       kx == kpos \div kH
                       ky == kpos % kH
                   IN IF ox * sH + kx - padX = x /\ oy * sV + ky - padY = y
                      THEN At(packed, ch * kW * kH + kx * kH + ky,
                              s * outW * outH + pos)
                      ELSE 0], outW * outH * kW * kH)])]

\* Matrix::ConvolveAndWeightedAdd(alpha, a, b, beta, c, numChannels,
\* horizontalSubsample, padding) of the sparse 1-D path:
\* c = alpha * (convolution of every sample of b with a) + beta * c, every
\* sample's result laid out as one column of c.  The primitive reads the
\* widths off the extents of its operands.
ConvolveAndWeightedAdd(alpha, a, b, beta, c, numChannels, horizontalSubsample, padding) ==
    LET kW == a.cols \div numChannels
        inW == b.rows \div numChannels
        outW == c.rows \div a.rows
        p == Multiply(a, FALSE,
                 AssignPackedConvolutionInput(b, inW, 1, numChannels, outW, 1,
                                              kW, 1, horizontalSubsample, 1, padding),
                 FALSE)
    IN [c EXCEPT !.data = Vector([k \in 1..Len(c.data) |-> alpha * p.data[k] + beta * c.data[k]])]

\* ------------------------------------------------------------ layouts

\* ImageLayoutWHC(width, height, channels).
ImageLayoutWHC(w, h, c) == [w |-> w, h |-> h, c |-> c]
GetWidth(layout) == layout.w
GetHeight(layout) == layout.h
GetNumChannels(layout) == layout.c


\* ------------------------------------------------------------- state

VARIABLES
    kind,     \* which operator the graph holds: "conv" or "pool"
    conv,     \* the ConvolutionNode: its members, its value and gradient
    pool,     \* the pooling node: the members of PoolingNodeBase
    weight,   \* Input(0) of the convolution: [value, gradient]
    feature,  \* Input(1) of the convolution, Input(0) of the pooling:
              \* [value, gradient, layout, sparseGPU]
    recurrent, \* the operator sits in a recurrent loop: every call gets one
              \* frame of the minibatch, not all of them
    hist,     \* the evaluation calls made so far, <<op, frame range>> each
    snap,     \* the gradient buffers as they were at the last ForwardProp
    last,     \* what the last call did: [op, fr, iterations]
    file,     \* the fields Save wrote, in the order it wrote them
    saved     \* the operator as it was when Save wrote it

vars == <<kind, conv, pool, weight, feature, recurrent, hist, snap, last, file, saved>>

\* ------------------------------------------- framework (ComputationNode)

\* ComputationNode::InferImageDimsFromInput(index, false): the node's input
\* layout becomes the layout of its input; the output layout is left alone.
InferImageDimsFromInput(n, feat) == [n EXCEPT !.m_inputSampleLayout = feat.layout]

\* ComputationNode::ValidateInferInputDims(i, rows, cols): an input without
\* dimensions gets the dimensions the node needs.
ValidateInferInputDims(input, rows, cols, seed) ==
    [input EXCEPT !.value = GenMatrix(rows, cols, seed),
                  !.gradient = GenMatrix(rows, cols, seed + 1)]

\* ComputationNode::SetDims(rows, cols): the node's value and gradient get
\* these extents.  The gradient holds what the node's consumers left there.
SetDims(n, rows, cols) ==
    [n EXCEPT !.value = Zeros(rows, cols), !.gradient = GenMatrix(rows, cols, 3)]

\* ------------------------------------------- ConvolutionNode: validation

\* The output width or height: (input - subtrahend) / subsample + 1, in the
\* unsigned integers of the code (the division truncates).
OutputExtentUnclipped(inExtent, subtrahend, subsample) == inExtent \div subsample + 1
OutputExtentAlt(inExtent, subtrahend, subsample) == (inExtent - subtrahend) \div subsample
OutputExtent(inExtent, subtrahend, subsample) == (inExtent - subtrahend) \div subsample + 1

\* The input is smaller than the kernel (or window).
InputTooSmallAlt(layout, width, height) == GetWidth(layout) < width /\ GetHeight(layout) < height
InputTooSmall(layout, width, height) == GetWidth(layout) < width \/ GetHeight(layout) < height

\* The subsampling steps exceed the kernel (or window).
SubsampleTooLarge(hSub, vSub, width, height) == hSub > width \/ vSub > height

\* ConvolutionNode::InferImageDimsFromInputs.
ConvInferImageDimsFromInputs(n0, feat) ==
    LET n == InferImageDimsFromInput(n0, feat)
        inL == n.m_inputSampleLayout
    IN IF InputTooSmall(inL, n.m_kernelWidth, n.m_kernelHeight)
       THEN [n EXCEPT !.status = "InvalidArgument"]
       ELSE IF n.m_zeroPadding
       THEN LET kernelWidthCenter == n.m_kernelWidth % 2
                kernelHeightCenter == n.m_kernelHeight % 2
            IN [n EXCEPT !.m_sampleLayout = ImageLayoutWHC(
                   OutputExtent(GetWidth(inL), kernelWidthCenter, n.m_horizontalSubsample),
                   OutputExtent(GetHeight(inL), kernelHeightCenter, n.m_verticalSubsample),
                   GetNumChannels(n.m_sampleLayout))]
       ELSE [n EXCEPT !.m_sampleLayout = ImageLayoutWHC(
                   OutputExtent(GetWidth(inL), n.m_kernelWidth, n.m_horizontalSubsample),
                   OutputExtent(GetHeight(inL), n.m_kernelHeight, n.m_verticalSubsample),
                   GetNumChannels(n.m_sampleLayout))]

\* The weight operand does not have the extents the node needs.
WeightMismatchAlt(w, rows, cols) == GetNumCols(w.value) /= cols
WeightMismatch(w, rows, cols) == GetNumCols(w.value) /= cols \/ GetNumRows(w.value) /= rows

\* ConvolutionNode::Validate(isFinalValidationPass): the node, its weight and
\* its input afterwards.  A status InvalidArgument or LogicError stands for
\* the exception that leaves Validate at that point.
ConvValidate(n0, w0, f0, isFinalValidationPass) ==
    IF SubsampleTooLarge(n0.m_horizontalSubsample, n0.m_verticalSubsample,
                         n0.m_kernelWidth, n0.m_kernelHeight)
    THEN [conv |-> [n0 EXCEPT !.status = "InvalidArgument"], weight |-> w0, feature |-> f0]
    ELSE
    LET n1 == ConvInferImageDimsFromInputs(n0, f0)
        weightCols == n1.m_kernelWidth * n1.m_kernelHeight * GetNumChannels(n1.m_inputSampleLayout)
        w1 == IF HasNoElements(w0.value)
              THEN ValidateInferInputDims(w0, GetNumChannels(n1.m_sampleLayout), weightCols, 1)
              ELSE w0
        inputDim == GetWidth(n1.m_inputSampleLayout) * GetHeight(n1.m_inputSampleLayout)
                        * GetNumChannels(n1.m_inputSampleLayout)
        f1 == IF GetNumRows(f0.value) = 0
              THEN ValidateInferInputDims(f0, inputDim, GetNumCols(f0.value), 2)
              ELSE f0
        outputDim == GetWidth(n1.m_sampleLayout) * GetHeight(n1.m_sampleLayout)
                         * GetNumChannels(n1.m_sampleLayout)
    IN IF n1.status = "InvalidArgument"
       THEN [conv |-> n1, weight |-> w0, feature |-> f0]
       ELSE IF isFinalValidationPass
               /\ WeightMismatch(w1, GetNumChannels(n1.m_sampleLayout), weightCols)
       THEN [conv |-> [n1 EXCEPT !.status = "LogicError"], weight |-> w1, feature |-> f0]
       ELSE IF isFinalValidationPass /\ GetNumRows(f1.value) /= inputDim
       THEN [conv |-> [n1 EXCEPT !.status = "LogicError"], weight |-> w1, feature |-> f1]
       ELSE [conv |-> [SetDims(n1, outputDim, GetNumCols(f1.value))
                          EXCEPT !.status = IF isFinalValidationPass THEN "final" ELSE "validated"],
             weight |-> w1, feature |-> f1]

\* ------------------------------------------- PoolingNodeBase: validation

\* PoolingNodeBase::InferImageDimsFromInputs.
PoolInferImageDimsFromInputs(n0, feat) ==
    LET n == InferImageDimsFromInput(n0, feat)
        inL == n.m_inputSampleLayout
    IN IF InputTooSmall(inL, n.m_windowWidth, n.m_windowHeight)
       THEN [n EXCEPT !.status = "InvalidArgument"]
       ELSE [n EXCEPT !.m_sampleLayout = ImageLayoutWHC(
                   OutputExtent(GetWidth(inL), n.m_windowWidth, n.m_horizontalSubsample),
                   OutputExtent(GetHeight(inL), n.m_windowHeight, n.m_verticalSubsample),
                   GetNumChannels(inL))]

\* The per-sample sizes PoolingNodeBase::Validate caches.
PoolSizesAlt(n) ==
    [n EXCEPT !.m_inputSizePerSample = GetWidth(n.m_inputSampleLayout) * GetHeight(n.m_inputSampleLayout)
                                           * GetNumChannels(n.m_inputSampleLayout),
              !.m_outputSizePerSample = GetWidth(n.m_sampleLayout) * GetHeight(n.m_sampleLayout)]
PoolSizes(n) ==
    [n EXCEPT !.m_inputSizePerSample = GetWidth(n.m_inputSampleLayout) * GetHeight(n.m_inputSampleLayout)
                                           * GetNumChannels(n.m_inputSampleLayout),
              !.m_outputSizePerSample = GetWidth(n.m_sampleLayout) * GetHeight(n.m_sampleLayout)
                                           * GetNumChannels(n.m_sampleLayout)]

\* PoolingNodeBase::Validate(isFinalValidationPass): the node and its input
\* afterwards.
PoolValidate(n0, f0, isFinalValidationPass) ==
    IF SubsampleTooLarge(n0.m_horizontalSubsample, n0.m_verticalSubsample,
                         n0.m_windowWidth, n0.m_windowHeight)
    THEN [pool |-> [n0 EXCEPT !.status = "InvalidArgument"], feature |-> f0]
    ELSE
    LET n1 == PoolInferImageDimsFromInputs(n0, f0)
        n2 == PoolSizes(n1)
        f1 == IF GetNumRows(f0.value) = 0
              THEN ValidateInferInputDims(f0, n2.m_inputSizePerSample, GetNumCols(f0.value), 2)
              ELSE f0
    IN IF n1.status = "InvalidArgument"
       THEN [pool |-> n1, feature |-> f0]
       ELSE IF isFinalValidationPass /\ GetNumRows(f1.value) /= n2.m_inputSizePerSample
       THEN [pool |-> [n2 EXCEPT !.status = "LogicError"], feature |-> f1]
       ELSE [pool |-> [SetDims(n2, n2.m_outputSizePerSample, GetNumCols(f1.value))
                          EXCEPT !.status = IF isFinalValidationPass THEN "final" ELSE "validated"],
             feature |-> f1]


\* ------------------------------------------- ConvolutionNode: evaluation

\* The sub-batch tiling all three loops share: the samples a sub-batch may
\* hold, the number of sub-batches, and the samples of sub-batch i.
SubBatchSize(batchSize, m_maxTempMemSizeInSamples) ==
    LET maxTempMemSizeInSamples ==
            IF m_maxTempMemSizeInSamples = 0 THEN batchSize ELSE m_maxTempMemSizeInSamples
    IN Min(batchSize, maxTempMemSizeInSamples)

NumSubBatchesAlt(batchSize, subBatchSize) == batchSize \div subBatchSize
NumSubBatches(batchSize, subBatchSize) == (batchSize + subBatchSize - 1) \div subBatchSize

StartSampleID(i, subBatchSize) == i * subBatchSize

EndSampleID(batchSize, startSampleID, subBatchSize) == Min(batchSize, startSampleID + subBatchSize)

\* The sizes the three functions compute first.
PackedInputRows(n) == n.m_kernelWidth * n.m_kernelHeight * GetNumChannels(n.m_inputSampleLayout)
PackedInputColsPerSample(n) == GetWidth(n.m_sampleLayout) * GetHeight(n.m_sampleLayout)

\* The columns tempMatrix.Resize gives the packed buffer for a sub-batch of
\* smallBatchSize samples (lines 154, 193 and 274):
\* packedInputColsPerSample * smallBatchSize.
PackedInputColsAlt(n, smallBatchSize) == PackedInputColsPerSample(n) * (smallBatchSize + 1)
PackedInputCols(n, smallBatchSize) == PackedInputColsPerSample(n) * smallBatchSize

\* The rows of the value and of the gradient of the node, to which lines
\* 164, 205 and 285 reshape back:
\* m_sampleLayout.GetNumChannels() * outputSizePerChannel.
OutputSizePerSampleAlt(n) == PackedInputColsPerSample(n)
OutputSizePerSample(n) == GetNumChannels(n.m_sampleLayout) * PackedInputColsPerSample(n)

\* tempMatrix.AssignPackedConvolutionInput(inputSubBatch, ...) as the node
\* calls it, with its layouts and its kernel.
PackWith(n, inputSubBatch) ==
    AssignPackedConvolutionInput(inputSubBatch,
        GetWidth(n.m_inputSampleLayout), GetHeight(n.m_inputSampleLayout),
        GetNumChannels(n.m_inputSampleLayout),
        GetWidth(n.m_sampleLayout), GetHeight(n.m_sampleLayout),
        n.m_kernelWidth, n.m_kernelHeight, n.m_horizontalSubsample, n.m_verticalSubsample,
        n.m_zeroPadding)

\* tempMatrix.UnpackConvolutionInput(inputGradientSubBatch, ...) as the node
\* calls it.
UnpackWith(n, tempMatrix, inputGradientSubBatch) ==
    UnpackConvolutionInput(tempMatrix, inputGradientSubBatch,
        GetWidth(n.m_inputSampleLayout), GetHeight(n.m_inputSampleLayout),
        GetNumChannels(n.m_inputSampleLayout),
        GetWidth(n.m_sampleLayout), GetHeight(n.m_sampleLayout),
        n.m_kernelWidth, n.m_kernelHeight, n.m_horizontalSubsample, n.m_verticalSubsample,
        n.m_zeroPadding)

\* What one sub-batch iteration did: its samples [startSampleID, endSampleID),
\* the columns [colStart, colStart + colCount) of the output (or gradient)
\* it used, and whether it packed its input.
Iteration(startSampleID, endSampleID, colStart, colCount, packed, tempCols) ==
    [startSampleID |-> startSampleID, endSampleID |-> endSampleID,
     colStart |-> colStart, colCount |-> colCount, packed |-> packed,
     tempCols |-> tempCols]

\* The output columns sub-batch [startSampleID, +smallBatchSize) is written
\* to on the generic path, in the reshaped output.
OutputColumnStartAlt(startSampleID, outputSizePerChannel) == startSampleID
OutputColumnStart(startSampleID, outputSizePerChannel) == startSampleID * outputSizePerChannel

\* The columns of the reshaped output gradient that belong to the sub-batch
\* starting at startSampleID, in both backward functions.
GradientColumnStartAlt(startSampleID, outputSizePerChannel) == startSampleID
GradientColumnStart(startSampleID, outputSizePerChannel) == startSampleID * outputSizePerChannel

\* The check of the sparse 1-D path (line 264): the kernel width times the
\* input channels is not the number of columns of the weight.
SparseKernelMismatchAlt(n, weightMatrix) == n.m_kernelWidth * GetNumChannels(n.m_inputSampleLayout) /= GetNumRows(weightMatrix)
SparseKernelMismatch(n, weightMatrix) == n.m_kernelWidth * GetNumChannels(n.m_inputSampleLayout) /= GetNumCols(weightMatrix)

\* The loop of ForwardPropS from iteration i on.  st holds functionValues,
\* tempMatrix and the iterations done.
RECURSIVE ForwardLoop(_, _, _, _, _, _, _, _)
ForwardLoop(i, numSubBatches, subBatchSize, batchSize, n, weightMatrix, input1, st) ==
    IF i >= numSubBatches THEN st
    ELSE
    LET startSampleID == StartSampleID(i, subBatchSize)
        endSampleID == EndSampleID(batchSize, startSampleID, subBatchSize)
        smallBatchSize == endSampleID - startSampleID
        inputSubBatch == ColumnSlice(input1, startSampleID, smallBatchSize)
        outputSizePerChannel == PackedInputColsPerSample(n)
    IN IF n.m_1DConvolutionOnGPUSparse
       THEN IF SparseKernelMismatch(n, weightMatrix)
            THEN [st EXCEPT !.error = "LogicError"]
            ELSE
            LET outputSubBatch == ColumnSlice(st.functionValues, startSampleID, smallBatchSize)
                result == ConvolveAndWeightedAdd(1, weightMatrix, inputSubBatch, 0, outputSubBatch,
                              GetNumChannels(n.m_inputSampleLayout), n.m_horizontalSubsample,
                              n.m_zeroPadding)
            IN ForwardLoop(i + 1, numSubBatches, subBatchSize, batchSize, n, weightMatrix, input1,
                   [st EXCEPT !.functionValues = SetColumnSlice(@, startSampleID, result),
                              !.iterations = Append(@, Iteration(startSampleID, endSampleID,
                                                 startSampleID, smallBatchSize, FALSE,
                                                 GetNumCols(st.tempMatrix)))])
       ELSE
            LET tempMatrix == PackWith(n, inputSubBatch)
                colStart == OutputColumnStart(startSampleID, outputSizePerChannel)
                result == Multiply(weightMatrix, FALSE, tempMatrix, FALSE)
            IN ForwardLoop(i + 1, numSubBatches, subBatchSize, batchSize, n, weightMatrix, input1,
                   [st EXCEPT !.functionValues = SetColumnSlice(@, colStart, result),
                              !.tempMatrix = tempMatrix,
                              !.iterations = Append(@, Iteration(startSampleID, endSampleID,
                                                 colStart, smallBatchSize * outputSizePerChannel,
                                                 TRUE, PackedInputCols(n, smallBatchSize)))])

\* ConvolutionNode::ForwardPropS(functionValues, input0, input1, tempMatrix)
\* with the number of sub-batches that line 249 computed: the output, the
\* node (its packed buffer and its flag) and the iterations.
ForwardPropSWith(n0, functionValues, input0, input1, sparseGPU, numSubBatches) ==
    LET outputSizePerChannel == PackedInputColsPerSample(n0)
        batchSize == GetNumCols(input1)
        n == [n0 EXCEPT !.m_1DConvolutionOnGPUSparse =
                 (GetHeight(n0.m_inputSampleLayout) = 1 /\ sparseGPU)]
        reshaped == IF ~n.m_1DConvolutionOnGPUSparse
                    THEN Reshape(functionValues, GetNumChannels(n.m_sampleLayout),
                                 batchSize * outputSizePerChannel)
                    ELSE functionValues
        subBatchSize == SubBatchSize(batchSize, n.m_maxTempMemSizeInSamples)
        st == ForwardLoop(0, numSubBatches, subBatchSize, batchSize, n, input0, input1,
                  [functionValues |-> reshaped, tempMatrix |-> n.m_tempMatrix,
                   iterations |-> <<>>, error |-> "none"])
    IN [node |-> [n EXCEPT !.m_tempMatrix = st.tempMatrix],
        functionValues |-> Reshape(st.functionValues, OutputSizePerSample(n), batchSize),
        iterations |-> st.iterations,
        error |-> st.error]

\* ConvolutionNode::ForwardPropS on a batch that is not empty, where the
\* division of line 249 is defined.
ForwardPropS(n0, functionValues, input0, input1, sparseGPU) ==
    ForwardPropSWith(n0, functionValues, input0, input1, sparseGPU,
        NumSubBatches(GetNumCols(input1),
                      SubBatchSize(GetNumCols(input1), n0.m_maxTempMemSizeInSamples)))

\* The condition under which BackpropToOverWeight reuses the packed buffer
\* of the forward pass.
ReusePackedInputAlt(numSubBatches, inLoop, m_1DConvolutionOnGPUSparse) ==
    numSubBatches = 1 /\ ~m_1DConvolutionOnGPUSparse
ReusePackedInput(numSubBatches, inLoop, m_1DConvolutionOnGPUSparse) ==
    numSubBatches = 1 /\ ~inLoop /\ ~m_1DConvolutionOnGPUSparse

\* The repacking loop of BackpropToOverWeight from iteration i on.  st holds
\* inputGradientValues (the weight gradient), tempMatrix and the iterations.
RECURSIVE WeightLoop(_, _, _, _, _, _, _, _)
WeightLoop(i, numSubBatches, subBatchSize, batchSize, n, gradientValues, input1, st) ==
    IF i >= numSubBatches THEN st
    ELSE
    LET startSampleID == StartSampleID(i, subBatchSize)
        endSampleID == EndSampleID(batchSize, startSampleID, subBatchSize)
        smallBatchSize == endSampleID - startSampleID
        outputSizePerChannel == PackedInputColsPerSample(n)
        outputGradientSubBatch == ColumnSlice(gradientValues,
                                      GradientColumnStart(startSampleID, outputSizePerChannel),
                                      smallBatchSize * outputSizePerChannel)
        inputSubBatch == ColumnSlice(input1, startSampleID, smallBatchSize)
        tempMatrix == PackWith(n, inputSubBatch)
    IN WeightLoop(i + 1, numSubBatches, subBatchSize, batchSize, n, gradientValues, input1,
           [st EXCEPT !.inputGradientValues =
                          MultiplyAndAdd(outputGradientSubBatch, FALSE, tempMatrix, TRUE, @),
                      !.tempMatrix = tempMatrix,
                      !.iterations = Append(@, Iteration(startSampleID, endSampleID,
                                         startSampleID * outputSizePerChannel,
                                         smallBatchSize * outputSizePerChannel,
                                         TRUE, PackedInputCols(n, smallBatchSize)))])

\* Matrix::MultiplyAndAdd refuses operands whose extents do not fit:
\* op(a) * op(b) needs as many columns of op(a) as rows of op(b), and c the
\* extents of the product.
ExtentsFit(a, transA, b, transB, c) ==
    /\ OpCols(a, transA) = OpRows(b, transB)
    /\ OpRows(a, transA) = GetNumRows(c)
    /\ OpCols(b, transB) = GetNumCols(c)

\* ConvolutionNode::BackpropToOverWeight(gradientValues, inputGradientValues,
\* input0, input1, tempMatrix, inLoop) with the number of sub-batches that
\* line 139 computed.  The error is the one that leaves the function when
\* the reused buffer does not fit the output gradient.
BackpropToOverWeightWith(n, gradientValues0, inputGradientValues, input1, inLoop, numSubBatches) ==
    LET outputSizePerChannel == PackedInputColsPerSample(n)
        batchSize == GetNumCols(input1)
        gradientValues == Reshape(gradientValues0, GetNumChannels(n.m_sampleLayout),
                                  batchSize * outputSizePerChannel)
        subBatchSize == SubBatchSize(batchSize, n.m_maxTempMemSizeInSamples)
        reuse == ReusePackedInput(numSubBatches, inLoop, n.m_1DConvolutionOnGPUSparse)
        fits == ExtentsFit(gradientValues, FALSE, n.m_tempMatrix, TRUE, inputGradientValues)
        st == IF reuse /\ ~fits
              THEN [inputGradientValues |-> inputGradientValues,
                    tempMatrix |-> n.m_tempMatrix,
                    iterations |-> <<>>]
              ELSE IF reuse
              THEN [inputGradientValues |->
                        MultiplyAndAdd(gradientValues, FALSE, n.m_tempMatrix, TRUE,
                                       inputGradientValues),
                    tempMatrix |-> n.m_tempMatrix,
                    iterations |-> <<>>]
              ELSE WeightLoop(0, numSubBatches, subBatchSize, batchSize, n, gradientValues, input1,
                       [inputGradientValues |-> inputGradientValues,
                        tempMatrix |-> n.m_tempMatrix,
                        iterations |-> <<>>])
    IN [node |-> [n EXCEPT !.m_tempMatrix = st.tempMatrix],
        gradientValues |-> Reshape(gradientValues, OutputSizePerSample(n), batchSize),
        inputGradientValues |-> st.inputGradientValues,
        iterations |-> st.iterations,
        reused |-> reuse,
        error |-> IF reuse /\ ~fits THEN "LogicError" ELSE "none"]

\* ConvolutionNode::BackpropToOverWeight on a batch that is not empty.
BackpropToOverWeight(n, gradientValues0, inputGradientValues, input1, inLoop) ==
    BackpropToOverWeightWith(n, gradientValues0, inputGradientValues, input1, inLoop,
        NumSubBatches(GetNumCols(input1),
                      SubBatchSize(GetNumCols(input1), n.m_maxTempMemSizeInSamples)))

\* The loop of BackpropToOverInputFeature from iteration i on.  st holds
\* inputGradientValues (the input gradient), tempMatrix and the iterations.
RECURSIVE FeatureLoop(_, _, _, _, _, _, _, _)
FeatureLoop(i, numSubBatches, subBatchSize, batchSize, n, gradientValues, weightMatrix, st) ==
    IF i >= numSubBatches THEN st
    ELSE
    LET startSampleID == StartSampleID(i, subBatchSize)
        endSampleID == EndSampleID(batchSize, startSampleID, subBatchSize)
        smallBatchSize == endSampleID - startSampleID
        outputSizePerChannel == PackedInputColsPerSample(n)
        outputGradientSubBatch == ColumnSlice(gradientValues,
                                      GradientColumnStart(startSampleID, outputSizePerChannel),
                                      smallBatchSize * outputSizePerChannel)
        tempMatrix == Multiply(weightMatrix, TRUE, outputGradientSubBatch, FALSE)
        inputGradientSubBatch == ColumnSlice(st.inputGradientValues, startSampleID, smallBatchSize)
    IN FeatureLoop(i + 1, numSubBatches, subBatchSize, batchSize, n, gradientValues, weightMatrix,
           [st EXCEPT !.inputGradientValues =
                          SetColumnSlice(@, startSampleID,
                              UnpackWith(n, tempMatrix, inputGradientSubBatch)),
                      !.tempMatrix = tempMatrix,
                      !.iterations = Append(@, Iteration(startSampleID, endSampleID,
                                         startSampleID * outputSizePerChannel,
                                         smallBatchSize * outputSizePerChannel,
                                         FALSE, PackedInputCols(n, smallBatchSize)))])

\* ConvolutionNode::BackpropToOverInputFeature(gradientValues,
\* inputGradientValues, input0, input1, tempMatrix) with the number of
\* sub-batches that line 185 computed.
BackpropToOverInputFeatureWith(n, gradientValues0, inputGradientValues, input0, input1, numSubBatches) ==
    LET outputSizePerChannel == PackedInputColsPerSample(n)
        batchSize == GetNumCols(input1)
        gradientValues == Reshape(gradientValues0, GetNumChannels(n.m_sampleLayout),
                                  outputSizePerChannel * batchSize)
        subBatchSize == SubBatchSize(batchSize, n.m_maxTempMemSizeInSamples)
        st == FeatureLoop(0, numSubBatches, subBatchSize, batchSize, n, gradientValues, input0,
                  [inputGradientValues |-> inputGradientValues,
                   tempMatrix |-> n.m_tempMatrix,
                   iterations |-> <<>>])
    IN [node |-> [n EXCEPT !.m_tempMatrix = st.tempMatrix],
        gradientValues |-> Reshape(gradientValues, OutputSizePerSample(n), batchSize),
        inputGradientValues |-> st.inputGradientValues,
        iterations |-> st.iterations]

\* ConvolutionNode::BackpropToOverInputFeature on a batch that is not empty.
BackpropToOverInputFeature(n, gradientValues0, inputGradientValues, input0, input1) ==
    BackpropToOverInputFeatureWith(n, gradientValues0, inputGradientValues, input0, input1,
        NumSubBatches(GetNumCols(input1),
                      SubBatchSize(GetNumCols(input1), n.m_maxTempMemSizeInSamples)))


\* ----------------------------------------------------- construction

\* Where the graph holds no such operator or input.
NoNode == [status |-> "absent"]

\* A matrix without elements.
Empty == Zeros(0, 0)

\* The layout of a default-constructed ImageLayout.
DefaultLayout == ImageLayoutWHC(1, 1, 1)

\* ConvolutionNode(deviceId, name, kernelWidth, kernelHeight, outputChannels,
\* horizontalSubsample, verticalSubsample, zeroPadding,
\* maxTempMemSizeInSamples).  The constructor leaves
\* m_1DConvolutionOnGPUSparse unset: uninit is any value it may hold.
ConvolutionNode(kernelWidth, kernelHeight, outputChannels, horizontalSubsample, verticalSubsample, zeroPadding, maxTempMemSizeInSamples, uninit) ==
    [m_kernelWidth |-> kernelWidth, m_kernelHeight |-> kernelHeight,
     m_horizontalSubsample |-> horizontalSubsample, m_verticalSubsample |-> verticalSubsample,
     m_zeroPadding |-> zeroPadding, m_maxTempMemSizeInSamples |-> maxTempMemSizeInSamples,
     m_sampleLayout |-> ImageLayoutWHC(1, 1, outputChannels),
     m_inputSampleLayout |-> DefaultLayout,
     m_1DConvolutionOnGPUSparse |-> uninit,
     m_tempMatrix |-> Empty,
     value |-> Empty, gradient |-> Empty,
     status |-> "constructed"]

\* PoolingNodeBase(deviceId, name, windowWidth, windowHeight,
\* horizontalSubsample, verticalSubsample).  The constructor leaves the two
\* cached sizes unset: uninit is any value they may hold.
PoolingNodeBase(windowWidth, windowHeight, horizontalSubsample, verticalSubsample, uninit) ==
    [m_windowWidth |-> windowWidth, m_windowHeight |-> windowHeight,
     m_horizontalSubsample |-> horizontalSubsample, m_verticalSubsample |-> verticalSubsample,
     m_inputSizePerSample |-> uninit, m_outputSizePerSample |-> uninit,
     m_sampleLayout |-> DefaultLayout,
     m_inputSampleLayout |-> DefaultLayout,
     value |-> Empty, gradient |-> Empty,
     status |-> "constructed"]

\* The input of the operator: rows x cols values of an image layout, stored
\* sparse on the GPU or not.
InputNode(layout, rows, cols, sparseGPU) ==
    [value |-> GenMatrix(rows, cols, 2), gradient |-> GenMatrix(rows, cols, 5),
     layout |-> layout, sparseGPU |-> sparseGPU]

\* The weight of the convolution, with a gradient of the same extents.
LearnableParameter(rows, cols) ==
    [value |-> GenMatrix(rows, cols, 1), gradient |-> GenMatrix(rows, cols, 4)]

NoCall == [op |-> "none", fr |-> AllFrames, iterations |-> <<>>]
NoSnap == [weight |-> Empty, feature |-> Empty]

\* The number of channels of the inputs and of the outputs tried.
Channels == 1..2

\* ------------------------------------------------ validation only

\* Any operator on any input: kernels, windows and subsampling steps of
\* every size, valid or not, weights and inputs of the right and of wrong
\* extents, or without extents yet.
InitValidate ==
    \E inW \in 1..MaxWidth, inH \in 1..MaxHeight, inC \in Channels,
       kW \in 1..MaxWidth, kH \in 1..MaxHeight,
       hSub \in 1..MaxWidth, vSub \in 1..MaxHeight,
       rowsOff \in {-1, 0, 1} :
        LET inputDim == inW * inH * inC
            rows == IF rowsOff = -1 THEN 0 ELSE inputDim + rowsOff
        IN /\ feature = InputNode(ImageLayoutWHC(inW, inH, inC), rows, 1, FALSE)
           /\ \/ /\ kind = "conv"
                 /\ \E outC \in Channels, zeroPadding \in BOOLEAN, uninit \in BOOLEAN,
                       shape \in {"empty", "right", "rows", "cols"} :
                      /\ conv = ConvolutionNode(kW, kH, outC, hSub, vSub, zeroPadding, 0, uninit)
                      /\ weight = CASE shape = "empty" -> [value |-> Empty, gradient |-> Empty]
                                    [] shape = "right" -> LearnableParameter(outC, kW * kH * inC)
                                    [] shape = "rows" -> LearnableParameter(outC + 1, kW * kH * inC)
                                    [] shape = "cols" -> LearnableParameter(outC, kW * kH * inC + 1)
                 /\ pool = NoNode
              \/ /\ kind = "pool"
                 /\ \E uninit \in {0, 1} :
                      pool = PoolingNodeBase(kW, kH, hSub, vSub, uninit)
                 /\ conv = NoNode
                 /\ weight = NoNode
           /\ recurrent = FALSE
           /\ hist = <<>>
           /\ snap = NoSnap
           /\ last = NoCall
           /\ file = <<>>
           /\ saved = NoNode

\* Validate throws: the graph is not built, and nothing more happens to the
\* operator.
Failed(n) == n.status \in {"InvalidArgument", "LogicError"}

\* A validation pass over the convolution, final or not.  Validation
\* precedes the evaluation of the graph.
ValidateConvolution ==
    /\ kind = "conv"
    /\ ~Failed(conv)
    /\ hist = <<>>
    /\ \E isFinalValidationPass \in BOOLEAN :
         LET r == ConvValidate(conv, weight, feature, isFinalValidationPass)
         IN /\ conv' = r.conv
            /\ weight' = r.weight
            /\ feature' = r.feature
    /\ last' = [op |-> "Validate", fr |-> AllFrames, iterations |-> <<>>]
    /\ UNCHANGED <<kind, pool, recurrent, hist, snap, file, saved>>

\* A validation pass over the pooling operator, final or not.
ValidatePooling ==
    /\ kind = "pool"
    /\ ~Failed(pool)
    /\ hist = <<>>
    /\ \E isFinalValidationPass \in BOOLEAN :
         LET r == PoolValidate(pool, feature, isFinalValidationPass)
         IN /\ pool' = r.pool
            /\ feature' = r.feature
    /\ last' = [op |-> "Validate", fr |-> AllFrames, iterations |-> <<>>]
    /\ UNCHANGED <<kind, conv, weight, recurrent, hist, snap, file, saved>>

NextValidate == ValidateConvolution \/ ValidatePooling

SpecValidate == InitValidate /\ [][NextValidate]_vars


\* ----------------------------------------------------- evaluation

\* The convolutions evaluated: a 1-D one, a 2-D one with two input and two
\* output channels, a 1-D one with zero padding and a step of 2, and the
\* 4 x 4 image under a 2 x 2 kernel.
Scenarios ==
    { [inW |-> 3, inH |-> 1, inC |-> 1, kW |-> 2, kH |-> 1, hSub |-> 1, vSub |-> 1,
       zeroPadding |-> FALSE, outC |-> 1, example |-> FALSE],
      [inW |-> 2, inH |-> 2, inC |-> 2, kW |-> 2, kH |-> 1, hSub |-> 1, vSub |-> 1,
       zeroPadding |-> FALSE, outC |-> 2, example |-> FALSE],
      [inW |-> 3, inH |-> 1, inC |-> 1, kW |-> 3, kH |-> 1, hSub |-> 2, vSub |-> 1,
       zeroPadding |-> TRUE, outC |-> 1, example |-> FALSE],
      [inW |-> 4, inH |-> 4, inC |-> 1, kW |-> 2, kH |-> 2, hSub |-> 1, vSub |-> 1,
       zeroPadding |-> FALSE, outC |-> 1, example |-> TRUE] }

\* The weight [1, 0, 0, 0] and the input 1, 2, 3, ... of the 4 x 4 example.
ExampleWeight == [value |-> [rows |-> 1, cols |-> 4, data |-> <<1, 0, 0, 0>>],
                  gradient |-> GenMatrix(1, 4, 4)]
ExampleInput(layout, rows, cols) ==
    [InputNode(layout, rows, cols, FALSE)
        EXCEPT !.value = [rows |-> rows, cols |-> cols, data |-> Vector([k \in 1..(rows * cols) |-> k])]]

\* The memory budgets tried: none (0), smaller than the batch, the batch,
\* larger than the batch.
Budgets == 0..(MaxBatch + 1)

\* The numbers of frames of a minibatch evaluated frame by frame.
LoopLengths == {1, 2}

\* The 4 x 4 example is one dense image, outside of any loop.
Init ==
    \E sc \in Scenarios, batchSize \in 1..MaxBatch, budget \in Budgets,
       sparseGPU \in BOOLEAN, loop \in BOOLEAN, uninit \in BOOLEAN :
        LET layout == ImageLayoutWHC(sc.inW, sc.inH, sc.inC)
            inputDim == sc.inW * sc.inH * sc.inC
        IN /\ sc.example => (batchSize = 1 /\ ~sparseGPU /\ ~loop)
           /\ loop => batchSize \in LoopLengths
           /\ kind = "conv"
           /\ conv = ConvolutionNode(sc.kW, sc.kH, sc.outC, sc.hSub, sc.vSub,
                                     sc.zeroPadding, budget, uninit)
           /\ pool = NoNode
           /\ weight = IF sc.example THEN ExampleWeight
                       ELSE LearnableParameter(sc.outC, sc.kW * sc.kH * sc.inC)
           /\ feature = IF sc.example
                        THEN [ExampleInput(layout, inputDim, batchSize) EXCEPT !.sparseGPU = sparseGPU]
                        ELSE InputNode(layout, inputDim, batchSize, sparseGPU)
           /\ recurrent = loop
           /\ hist = <<>>
           /\ snap = NoSnap
           /\ last = NoCall
           /\ file = <<>>
           /\ saved = NoNode

\* The frame ranges a call may get: all frames, or inside a recurrent loop
\* one frame (one column, with one sequence in the minibatch).
FrameRanges == IF recurrent THEN 0..(GetNumCols(feature.value) - 1) ELSE {AllFrames}

\* ComputationNode::ValueFor(fr), GradientFor(fr): the columns of the frame
\* range, and writing through that view.
ValueFor(M, fr) == IF fr = AllFrames THEN M ELSE ColumnSlice(M, fr, 1)
AssignFor(M, fr, S) == IF fr = AllFrames THEN S ELSE SetColumnSlice(M, fr, S)

\* The integer division of lines 139, 185 and 249,
\* (batchSize + subBatchSize - 1) / subBatchSize.  A divisor of zero is
\* undefined behaviour: the division traps, or it yields some quotient and
\* the call goes on with it.
Trap == -2
Quotients == 0..1
DivisionOutcomes(batchSize, subBatchSize) ==
    IF subBatchSize = 0 THEN {Trap} \cup Quotients
    ELSE {NumSubBatches(batchSize, subBatchSize)}

\* ConvolutionNode::ForwardProp(fr).  The graph is evaluated once its final
\* validation pass has succeeded.
ForwardProp ==
    /\ kind = "conv"
    /\ conv.status = "final"
    /\ Len(hist) < MaxSteps
    /\ \E fr \in FrameRanges :
         LET sliceInput1Value == ValueFor(feature.value, fr)
             sliceOutputValue == ValueFor(conv.value, fr)
             batchSize == GetNumCols(sliceInput1Value)
         IN \E numSubBatches \in DivisionOutcomes(batchSize,
                    SubBatchSize(batchSize, conv.m_maxTempMemSizeInSamples)) :
              /\ hist' = Append(hist, <<"ForwardProp", fr>>)
              /\ IF numSubBatches = Trap
                 THEN /\ conv' = [conv EXCEPT !.status = "SIGFPE"]
                      /\ last' = [op |-> "ForwardProp", fr |-> fr, iterations |-> <<>>]
                 ELSE LET r == ForwardPropSWith(conv, sliceOutputValue, weight.value,
                                   sliceInput1Value, feature.sparseGPU, numSubBatches)
                      IN /\ r.error = "none"
                         /\ conv' = [r.node EXCEPT !.value = AssignFor(conv.value, fr, r.functionValues)]
                         /\ last' = [op |-> "ForwardProp", fr |-> fr, iterations |-> r.iterations]
    /\ snap' = [weight |-> weight.gradient, feature |-> feature.gradient]
    /\ UNCHANGED <<kind, pool, weight, feature, recurrent, file, saved>>

\* ConvolutionNode::BackpropTo(inputIndex, fr).  The packed buffer comes
\* from the pool before the forward pass, so a forward pass went before.
BackpropTo ==
    /\ kind = "conv"
    /\ conv.status = "final"
    /\ hist /= <<>>
    /\ Len(hist) < MaxSteps
    /\ \E inputIndex \in {0, 1}, fr \in FrameRanges :
         LET sliceOutputGrad == ValueFor(conv.gradient, fr)
             sliceInput1Value == ValueFor(feature.value, fr)
             batchSize == GetNumCols(sliceInput1Value)
         IN \E numSubBatches \in DivisionOutcomes(batchSize,
                    SubBatchSize(batchSize, conv.m_maxTempMemSizeInSamples)) :
            IF numSubBatches = Trap
            THEN /\ conv' = [conv EXCEPT !.status = "SIGFPE"]
                 /\ UNCHANGED <<weight, feature>>
                 /\ hist' = Append(hist, <<IF inputIndex = 0 THEN "BackpropTo0" ELSE "BackpropTo1", fr>>)
                 /\ last' = [op |-> IF inputIndex = 0 THEN "BackpropTo0" ELSE "BackpropTo1",
                             fr |-> fr, iterations |-> <<>>]
            ELSE IF inputIndex = 0
            THEN LET r == BackpropToOverWeightWith(conv, sliceOutputGrad, weight.gradient,
                                               sliceInput1Value, fr /= AllFrames, numSubBatches)
                 IN /\ conv' = IF r.error = "none"
                               THEN [r.node EXCEPT !.gradient = AssignFor(conv.gradient, fr, r.gradientValues)]
                               ELSE [conv EXCEPT !.status = r.error]
                    /\ weight' = [weight EXCEPT !.gradient = r.inputGradientValues]
                    /\ feature' = feature
                    /\ hist' = Append(hist, <<"BackpropTo0", fr>>)
                    /\ last' = [op |-> "BackpropTo0", fr |-> fr, iterations |-> r.iterations]
            ELSE LET sliceInput1Grad == ValueFor(feature.gradient, fr)
                     r == BackpropToOverInputFeatureWith(conv, sliceOutputGrad, sliceInput1Grad,
                                                     weight.value, sliceInput1Value, numSubBatches)
                 IN /\ conv' = [r.node EXCEPT !.gradient = AssignFor(conv.gradient, fr, r.gradientValues)]
                    /\ feature' = [feature EXCEPT !.gradient = AssignFor(@, fr, r.inputGradientValues)]
                    /\ weight' = weight
                    /\ hist' = Append(hist, <<"BackpropTo1", fr>>)
                    /\ last' = [op |-> "BackpropTo1", fr |-> fr, iterations |-> r.iterations]
    /\ UNCHANGED <<kind, pool, recurrent, snap, file, saved>>

Next == ValidateConvolution \/ ForwardProp \/ BackpropTo

Spec == Init /\ [][Next]_vars

\* ConvolutionNode::SetmMaxTempMemSizeInSamples(maxTempMemSizeInSamples),
\* called between two calls of the evaluation.
NewBudgets == {0, 1}
SetmMaxTempMemSizeInSamples ==
    /\ kind = "conv"
    /\ conv.status = "final"
    /\ hist /= <<>>
    /\ Len(hist) < MaxSteps
    /\ \E maxTempMemSizeInSamples \in NewBudgets :
         /\ maxTempMemSizeInSamples /= conv.m_maxTempMemSizeInSamples
         /\ conv' = [conv EXCEPT !.m_maxTempMemSizeInSamples = maxTempMemSizeInSamples]
         /\ hist' = Append(hist, <<"SetmMaxTempMemSizeInSamples", maxTempMemSizeInSamples>>)
    /\ last' = [op |-> "SetmMaxTempMemSizeInSamples", fr |-> AllFrames, iterations |-> <<>>]
    /\ UNCHANGED <<kind, pool, weight, feature, recurrent, snap, file, saved>>

\* The operators with a minibatch of any size, the empty one included, and
\* a budget that changes between the calls.  The minibatch is evaluated
\* outside of any loop.
RuntimeScenarios == {sc \in Scenarios : ~sc.example}
InitRuntime ==
    \E sc \in RuntimeScenarios, batchSize \in 0..MaxBatch, budget \in Budgets,
       sparseGPU \in BOOLEAN :
        LET layout == ImageLayoutWHC(sc.inW, sc.inH, sc.inC)
            inputDim == sc.inW * sc.inH * sc.inC
        IN /\ kind = "conv"
           /\ conv = ConvolutionNode(sc.kW, sc.kH, sc.outC, sc.hSub, sc.vSub,
                                     sc.zeroPadding, budget, FALSE)
           /\ pool = NoNode
           /\ weight = LearnableParameter(sc.outC, sc.kW * sc.kH * sc.inC)
           /\ feature = InputNode(layout, inputDim, batchSize, sparseGPU)
           /\ recurrent = FALSE
           /\ hist = <<>>
           /\ snap = NoSnap
           /\ last = NoCall
           /\ file = <<>>
           /\ saved = NoNode

NextRuntime == ValidateConvolution \/ ForwardProp \/ BackpropTo \/ SetmMaxTempMemSizeInSamples

SpecRuntime == InitRuntime /\ [][NextRuntime]_vars


\* ------------------------------------------------------- Save, Load

\* SIZE_MAX, the size_t with every bit set, written as -1: the members hold
\* it between the default constructor and Load, and nothing computes on it.
SIZE_MAX == -1

\* File: what operator<< writes for a size_t and for a bool, and what
\* operator>> makes of a field when it reads a size_t or a bool.
WriteSizeT(v) == [type |-> "size_t", v |-> v]
WriteBool(b) == [type |-> "bool", v |-> b]
ReadSizeT(field) == IF field.type = "size_t" THEN field.v ELSE IF field.v THEN 1 ELSE 0
ReadBool(field) == IF field.type = "bool" THEN field.v ELSE field.v /= 0

\* ConvolutionNode(deviceId, name) and PoolingNodeBase(deviceId, name): the
\* nodes that Load fills.
DefaultConvolutionNode(uninit) ==
    ConvolutionNode(SIZE_MAX, SIZE_MAX, 0, SIZE_MAX, SIZE_MAX, FALSE, SIZE_MAX, uninit)
DefaultPoolingNode(uninit) ==
    PoolingNodeBase(SIZE_MAX, SIZE_MAX, SIZE_MAX, SIZE_MAX, uninit)

\* ConvolutionNode::Save(fstream): the fields it appends.
ConvSave(n) ==
    <<WriteSizeT(n.m_kernelWidth), WriteSizeT(n.m_kernelHeight),
      WriteSizeT(n.m_horizontalSubsample), WriteSizeT(n.m_verticalSubsample),
      WriteSizeT(GetNumChannels(n.m_sampleLayout)),
      WriteBool(n.m_zeroPadding), WriteSizeT(n.m_maxTempMemSizeInSamples)>>

\* ConvolutionNode::Load(fstream, modelVersion): the node after reading.
ConvLoadAlt(n, fstream) ==
    [n EXCEPT !.m_kernelWidth = ReadSizeT(fstream[2]),
              !.m_kernelHeight = ReadSizeT(fstream[1]),
              !.m_horizontalSubsample = ReadSizeT(fstream[3]),
              !.m_verticalSubsample = ReadSizeT(fstream[4]),
              !.m_sampleLayout = ImageLayoutWHC(1, 1, ReadSizeT(fstream[5])),
              !.m_zeroPadding = ReadBool(fstream[6]),
              !.m_maxTempMemSizeInSamples = ReadSizeT(fstream[7])]
ConvLoad(n, fstream) ==
    [n EXCEPT !.m_kernelWidth = ReadSizeT(fstream[1]),
              !.m_kernelHeight = ReadSizeT(fstream[2]),
              !.m_horizontalSubsample = ReadSizeT(fstream[3]),
              !.m_verticalSubsample = ReadSizeT(fstream[4]),
              !.m_sampleLayout = ImageLayoutWHC(1, 1, ReadSizeT(fstream[5])),
              !.m_zeroPadding = ReadBool(fstream[6]),
              !.m_maxTempMemSizeInSamples = ReadSizeT(fstream[7])]

\* PoolingNodeBase::Save and Load.
PoolSave(n) ==
    <<WriteSizeT(n.m_windowWidth), WriteSizeT(n.m_windowHeight),
      WriteSizeT(n.m_horizontalSubsample), WriteSizeT(n.m_verticalSubsample)>>
PoolLoad(n, fstream) ==
    [n EXCEPT !.m_windowWidth = ReadSizeT(fstream[1]),
              !.m_windowHeight = ReadSizeT(fstream[2]),
              !.m_horizontalSubsample = ReadSizeT(fstream[3]),
              !.m_verticalSubsample = ReadSizeT(fstream[4])]

\* Operators of a valid geometry on their input, under every budget, not
\* validated yet.
InitSave ==
    \E inW \in 1..MaxWidth, inH \in 1..MaxHeight, inC \in Channels,
       kW \in 1..MaxWidth, kH \in 1..MaxHeight,
       hSub \in 1..MaxWidth, vSub \in 1..MaxHeight :
        /\ hSub <= kW /\ kW <= inW
        /\ vSub <= kH /\ kH <= inH
        /\ feature = InputNode(ImageLayoutWHC(inW, inH, inC), inW * inH * inC, 1, FALSE)
        /\ \/ /\ kind = "conv"
              /\ \E outC \in Channels, zeroPadding \in BOOLEAN, budget \in Budgets :
                   /\ conv = ConvolutionNode(kW, kH, outC, hSub, vSub, zeroPadding, budget, FALSE)
                   /\ weight = LearnableParameter(outC, kW * kH * inC)
              /\ pool = NoNode
           \/ /\ kind = "pool"
              /\ pool = PoolingNodeBase(kW, kH, hSub, vSub, 0)
              /\ conv = NoNode
              /\ weight = NoNode
        /\ recurrent = FALSE
        /\ hist = <<>>
        /\ snap = NoSnap
        /\ last = NoCall
        /\ file = <<>>
        /\ saved = NoNode

\* Save(fstream) on the operator of the graph, validated or not.
Save ==
    /\ file = <<>>
    /\ saved = NoNode
    /\ \/ /\ kind = "conv"
          /\ ~Failed(conv)
          /\ file' = ConvSave(conv)
          /\ saved' = conv
       \/ /\ kind = "pool"
          /\ ~Failed(pool)
          /\ file' = PoolSave(pool)
          /\ saved' = pool
    /\ last' = [op |-> "Save", fr |-> AllFrames, iterations |-> <<>>]
    /\ UNCHANGED <<kind, conv, pool, weight, feature, recurrent, hist, snap>>

\* Load(fstream, modelVersion) into a node that the default constructor
\* made, in place of the operator of the graph; the file is read once.
Load ==
    /\ file /= <<>>
    /\ \/ /\ kind = "conv"
          /\ \E uninit \in BOOLEAN : conv' = ConvLoad(DefaultConvolutionNode(uninit), file)
          /\ pool' = pool
       \/ /\ kind = "pool"
          /\ \E uninit \in {0, 1} : pool' = PoolLoad(DefaultPoolingNode(uninit), file)
          /\ conv' = conv
    /\ file' = <<>>
    /\ last' = [op |-> "Load", fr |-> AllFrames, iterations |-> <<>>]
    /\ UNCHANGED <<kind, weight, feature, recurrent, hist, snap, saved>>

NextSave == ValidateConvolution \/ ValidatePooling \/ Save \/ Load

SpecSave == InitSave /\ [][NextSave]_vars


\* ------------------------------------------------ pooling primitives

\* The geometry the pooling primitives are called with.
PoolGeometry(channels, inputWidth, inputHeight, inputSizePerSample, outputWidth, outputHeight, outputSizePerSample, windowWidth, windowHeight, horizontalSubsample, verticalSubsample) ==
    [channels |-> channels, inputWidth |-> inputWidth, inputHeight |-> inputHeight,
     inputSizePerSample |-> inputSizePerSample,
     outputWidth |-> outputWidth, outputHeight |-> outputHeight,
     outputSizePerSample |-> outputSizePerSample,
     windowWidth |-> windowWidth, windowHeight |-> windowHeight,
     horizontalSubsample |-> horizontalSubsample, verticalSubsample |-> verticalSubsample]

\* The number of elements of a window, and the flat index, in its sample, of
\* the k-th element (k from 1, in storage order) of the window of the output
\* element with flat index p.
WindowSize(g) == g.windowWidth * g.windowHeight
WindowInput(p, k, g) ==
    LET ch == p % g.channels
        oy == (p \div g.channels) % g.outputHeight
        ox == (p \div g.channels) \div g.outputHeight
        wy == (k - 1) % g.windowHeight
        wx == (k - 1) \div g.windowHeight
    IN ImageIndex(ch, oy * g.verticalSubsample + wy, ox * g.horizontalSubsample + wx,
                  g.inputHeight, g.channels)

\* The values of that window in sample s.
WindowValues(inputBatch, s, p, g) ==
    Vector([k \in 1..WindowSize(g) |-> At(inputBatch, WindowInput(p, k, g), s)])

\* The largest of the first n values.
RECURSIVE MaxTo(_, _)
MaxTo(values, n) ==
    IF n = 1 THEN values[1]
    ELSE LET m == MaxTo(values, n - 1) IN IF values[n] > m THEN values[n] ELSE m

\* The first element of the window whose value is target, 0 if there is none.
FirstEqual(values, target) ==
    IF \E k \in 1..Len(values) : values[k] = target
    THEN CHOOSE k \in 1..Len(values) :
             values[k] = target /\ \A j \in 1..(k - 1) : values[j] /= target
    ELSE 0

\* Matrix::AssignMaxPoolingResult: every output element is the maximum of
\* its window.
AssignMaxPoolingResult(inputBatch, channels, inputWidth, inputHeight, inputSizePerSample, outputWidth, outputHeight, outputSizePerSample, windowWidth, windowHeight, horizontalSubsample, verticalSubsample) ==
    LET g == PoolGeometry(channels, inputWidth, inputHeight, inputSizePerSample,
                          outputWidth, outputHeight, outputSizePerSample,
                          windowWidth, windowHeight, horizontalSubsample, verticalSubsample)
        rows == outputSizePerSample
        cols == GetNumCols(inputBatch)
    IN [rows |-> rows, cols |-> cols,
        data |-> Vector([k \in 1..(rows * cols) |->
            MaxTo(WindowValues(inputBatch, (k - 1) \div rows, (k - 1) % rows, g),
                  WindowSize(g))])]

\* Matrix::AddMaxPoolingGradient: every output element adds its gradient to
\* the element of its window that the forward pass selected, which is the
\* first one whose value is the output value.
AddMaxPoolingGradient(inputGradient, outputGradientBatch, inputBatch, outputBatch, channels, inputWidth, inputHeight, inputSizePerSample, outputWidth, outputHeight, outputSizePerSample, windowWidth, windowHeight, horizontalSubsample, verticalSubsample) ==
    LET g == PoolGeometry(channels, inputWidth, inputHeight, inputSizePerSample,
                          outputWidth, outputHeight, outputSizePerSample,
                          windowWidth, windowHeight, horizontalSubsample, verticalSubsample)
        rows == inputSizePerSample
        routed(i, s) ==
            SumTo([q \in 1..outputSizePerSample |->
                LET sel == FirstEqual(WindowValues(inputBatch, s, q - 1, g),
                                      At(outputBatch, q - 1, s))
                IN IF sel /= 0 /\ WindowInput(q - 1, sel, g) = i
                   THEN At(outputGradientBatch, q - 1, s) ELSE 0], outputSizePerSample)
    IN [inputGradient EXCEPT !.data =
           Vector([k \in 1..Len(inputGradient.data) |->
               inputGradient.data[k] + routed((k - 1) % rows, (k - 1) \div rows)])]

\* Matrix::AssignAveragePoolingResult: every output element is the mean of
\* its window.
AssignAveragePoolingResult(inputBatch, channels, inputWidth, inputHeight, inputSizePerSample, outputWidth, outputHeight, outputSizePerSample, windowWidth, windowHeight, horizontalSubsample, verticalSubsample) ==
    LET g == PoolGeometry(channels, inputWidth, inputHeight, inputSizePerSample,
                          outputWidth, outputHeight, outputSizePerSample,
                          windowWidth, windowHeight, horizontalSubsample, verticalSubsample)
        rows == outputSizePerSample
        cols == GetNumCols(inputBatch)
    IN [rows |-> rows, cols |-> cols,
        data |-> Vector([k \in 1..(rows * cols) |->
            SumTo(WindowValues(inputBatch, (k - 1) \div rows, (k - 1) % rows, g),
                  WindowSize(g)) \div WindowSize(g)])]

\* Matrix::AddAveragePoolingGradient: every output element adds its
\* gradient, divided by the number of elements of the window, to every
\* element of its window.
AddAveragePoolingGradient(inputGradient, outputGradientBatch, channels, inputWidth, inputHeight, inputSizePerSample, outputWidth, outputHeight, outputSizePerSample, windowWidth, windowHeight, horizontalSubsample, verticalSubsample) ==
    LET g == PoolGeometry(channels, inputWidth, inputHeight, inputSizePerSample,
                          outputWidth, outputHeight, outputSizePerSample,
                          windowWidth, windowHeight, horizontalSubsample, verticalSubsample)
        rows == inputSizePerSample
        spread(i, s) ==
            SumTo([q \in 1..outputSizePerSample |->
                IF \E k \in 1..WindowSize(g) : WindowInput(q - 1, k, g) = i
                THEN At(outputGradientBatch, q - 1, s) \div WindowSize(g) ELSE 0],
                outputSizePerSample)
    IN [inputGradient EXCEPT !.data =
           Vector([k \in 1..Len(inputGradient.data) |->
               inputGradient.data[k] + spread((k - 1) % rows, (k - 1) \div rows)])]


\* -------------------------------------------- pooling nodes: evaluation

\* MaxPoolingNode and AveragePoolingNode: a PoolingNodeBase of that type.
MaxPoolingNode(windowWidth, windowHeight, horizontalSubsample, verticalSubsample, uninit) ==
    PoolingNodeBase(windowWidth, windowHeight, horizontalSubsample, verticalSubsample, uninit)
        @@ [type |-> "MaxPooling"]
AveragePoolingNode(windowWidth, windowHeight, horizontalSubsample, verticalSubsample, uninit) ==
    PoolingNodeBase(windowWidth, windowHeight, horizontalSubsample, verticalSubsample, uninit)
        @@ [type |-> "AveragePooling"]

\* MaxPoolingNode::ForwardPropV and BackpropToV.
MaxForwardPropV(n, functionValues, input0) ==
    AssignMaxPoolingResult(input0, GetNumChannels(n.m_inputSampleLayout),
        GetWidth(n.m_inputSampleLayout), GetHeight(n.m_inputSampleLayout), n.m_inputSizePerSample,
        GetWidth(n.m_sampleLayout), GetHeight(n.m_sampleLayout), n.m_outputSizePerSample,
        n.m_windowWidth, n.m_windowHeight, n.m_horizontalSubsample, n.m_verticalSubsample)
MaxBackpropToVAlt(n, gradientValues, inputGradientValues, input0, functionValues) ==
    AddMaxPoolingGradient(inputGradientValues, gradientValues, input0, gradientValues,
        GetNumChannels(n.m_inputSampleLayout),
        GetWidth(n.m_inputSampleLayout), GetHeight(n.m_inputSampleLayout), n.m_inputSizePerSample,
        GetWidth(n.m_sampleLayout), GetHeight(n.m_sampleLayout), n.m_outputSizePerSample,
        n.m_windowWidth, n.m_windowHeight, n.m_horizontalSubsample, n.m_verticalSubsample)
MaxBackpropToV(n, gradientValues, inputGradientValues, input0, functionValues) ==
    AddMaxPoolingGradient(inputGradientValues, gradientValues, input0, functionValues,
        GetNumChannels(n.m_inputSampleLayout),
        GetWidth(n.m_inputSampleLayout), GetHeight(n.m_inputSampleLayout), n.m_inputSizePerSample,
        GetWidth(n.m_sampleLayout), GetHeight(n.m_sampleLayout), n.m_outputSizePerSample,
        n.m_windowWidth, n.m_windowHeight, n.m_horizontalSubsample, n.m_verticalSubsample)

\* AveragePoolingNode::ForwardPropV and BackpropToV.
AverageForwardPropV(n, functionValues, input0) ==
    AssignAveragePoolingResult(input0, GetNumChannels(n.m_inputSampleLayout),
        GetWidth(n.m_inputSampleLayout), GetHeight(n.m_inputSampleLayout), n.m_inputSizePerSample,
        GetWidth(n.m_sampleLayout), GetHeight(n.m_sampleLayout), n.m_outputSizePerSample,
        n.m_windowWidth, n.m_windowHeight, n.m_horizontalSubsample, n.m_verticalSubsample)
AverageBackpropToVAlt(n, gradientValues, inputGradientValues, input0, functionValues) ==
    AddAveragePoolingGradient(inputGradientValues, gradientValues,
        GetNumChannels(n.m_inputSampleLayout),
        GetWidth(n.m_inputSampleLayout), GetHeight(n.m_inputSampleLayout), n.m_inputSizePerSample,
        GetWidth(n.m_sampleLayout), GetHeight(n.m_sampleLayout), n.m_outputSizePerSample,
        n.m_horizontalSubsample, n.m_verticalSubsample, n.m_horizontalSubsample, n.m_verticalSubsample)
AverageBackpropToV(n, gradientValues, inputGradientValues, input0, functionValues) ==
    AddAveragePoolingGradient(inputGradientValues, gradientValues,
        GetNumChannels(n.m_inputSampleLayout),
        GetWidth(n.m_inputSampleLayout), GetHeight(n.m_inputSampleLayout), n.m_inputSizePerSample,
        GetWidth(n.m_sampleLayout), GetHeight(n.m_sampleLayout), n.m_outputSizePerSample,
        n.m_windowWidth, n.m_windowHeight, n.m_horizontalSubsample, n.m_verticalSubsample)

\* The virtual ForwardPropV and BackpropToV of the node's class.
ForwardPropV(n, functionValues, input0) ==
    IF n.type = "MaxPooling" THEN MaxForwardPropV(n, functionValues, input0)
    ELSE AverageForwardPropV(n, functionValues, input0)
BackpropToV(n, gradientValues, inputGradientValues, input0, functionValues) ==
    IF n.type = "MaxPooling"
    THEN MaxBackpropToV(n, gradientValues, inputGradientValues, input0, functionValues)
    ELSE AverageBackpropToV(n, gradientValues, inputGradientValues, input0, functionValues)

\* The pooling operators evaluated: windows that overlap in one and in two
\* dimensions, two channels, and windows side by side.
PoolScenarios ==
    { [inW |-> 3, inH |-> 1, inC |-> 1, wW |-> 2, wH |-> 1, hSub |-> 1, vSub |-> 1],
      [inW |-> 2, inH |-> 2, inC |-> 2, wW |-> 2, wH |-> 2, hSub |-> 1, vSub |-> 1],
      [inW |-> 3, inH |-> 2, inC |-> 1, wW |-> 2, wH |-> 2, hSub |-> 1, vSub |-> 1],
      [inW |-> 4, inH |-> 1, inC |-> 1, wW |-> 2, wH |-> 1, hSub |-> 2, vSub |-> 1] }

\* Values are whole numbers.  The inputs and the output gradients tried are
\* multiples of every window size, so that the mean of a window and the
\* share of a window element are whole numbers too.
Scaled(M, factor) == [M EXCEPT !.data = Vector([k \in 1..Len(M.data) |-> factor * M.data[k]])]
Unit == 4
Seeds == {2, 6}

InitPool ==
    \E sc \in PoolScenarios, type \in {"MaxPooling", "AveragePooling"},
       batchSize \in 1..MaxBatch, loop \in BOOLEAN, seed \in Seeds, uninit \in {0, 1} :
        LET layout == ImageLayoutWHC(sc.inW, sc.inH, sc.inC)
            input == InputNode(layout, sc.inW * sc.inH * sc.inC, batchSize, FALSE)
        IN /\ loop => batchSize \in LoopLengths
           /\ kind = "pool"
           /\ pool = IF type = "MaxPooling"
                     THEN MaxPoolingNode(sc.wW, sc.wH, sc.hSub, sc.vSub, uninit)
                     ELSE AveragePoolingNode(sc.wW, sc.wH, sc.hSub, sc.vSub, uninit)
           /\ conv = NoNode
           /\ weight = NoNode
           /\ feature = [input EXCEPT
                           !.value = Scaled(GenMatrix(input.value.rows, batchSize, seed), Unit)]
           /\ recurrent = loop
           /\ hist = <<>>
           /\ snap = NoSnap
           /\ last = NoCall
           /\ file = <<>>
           /\ saved = NoNode

\* PoolingNodeBase::ForwardProp(fr).
PoolForwardProp ==
    /\ kind = "pool"
    /\ pool.status = "final"
    /\ Len(hist) < MaxSteps
    /\ \E fr \in FrameRanges :
         LET sliceInput0Value == ValueFor(feature.value, fr)
             sliceOutputValue == ValueFor(pool.value, fr)
         IN /\ pool' = [pool EXCEPT !.value =
                           AssignFor(@, fr, ForwardPropV(pool, sliceOutputValue, sliceInput0Value))]
            /\ hist' = Append(hist, <<"ForwardProp", fr>>)
            /\ last' = [op |-> "ForwardProp", fr |-> fr, iterations |-> <<>>]
    /\ snap' = [weight |-> Empty, feature |-> feature.gradient]
    /\ UNCHANGED <<kind, conv, weight, feature, recurrent, file, saved>>

\* The consumers of the operator leave their gradient in its gradient
\* buffer, between its forward and its backward pass.
ReceiveGradient ==
    /\ kind = "pool"
    /\ last.op = "ForwardProp"
    /\ \E seed \in Seeds :
         pool' = [pool EXCEPT !.gradient = Scaled(GenMatrix(@.rows, @.cols, seed), Unit)]
    /\ last' = [last EXCEPT !.op = "Gradient"]
    /\ UNCHANGED <<kind, conv, weight, feature, recurrent, hist, snap, file, saved>>

\* PoolingNodeBase::BackpropTo(inputIndex, fr).
PoolBackpropTo ==
    /\ kind = "pool"
    /\ pool.status = "final"
    /\ last.op \in {"Gradient", "BackpropTo0"}
    /\ Len(hist) < MaxSteps
    /\ \E fr \in FrameRanges :
         LET sliceInput0Grad == ValueFor(feature.gradient, fr)
             sliceOutputGrad == ValueFor(pool.gradient, fr)
             sliceInput0Value == ValueFor(feature.value, fr)
             sliceOutputValue == ValueFor(pool.value, fr)
         IN /\ feature' = [feature EXCEPT !.gradient =
                              AssignFor(@, fr, BackpropToV(pool, sliceOutputGrad, sliceInput0Grad,
                                                           sliceInput0Value, sliceOutputValue))]
            /\ hist' = Append(hist, <<"BackpropTo0", fr>>)
            /\ last' = [op |-> "BackpropTo0", fr |-> fr, iterations |-> <<>>]
    /\ UNCHANGED <<kind, conv, pool, weight, recurrent, snap, file, saved>>

NextPool == ValidatePooling \/ PoolForwardProp \/ ReceiveGradient \/ PoolBackpropTo

SpecPool == InitPool /\ [][NextPool]_vars


\* ------------------------------------------------------------ claims

\* The geometry of the operator and of its input, as the claims name them.
InW == GetWidth(feature.layout)
InH == GetHeight(feature.layout)
InC == GetNumChannels(feature.layout)

\* A validation pass has returned normally.
Validated(n) == n.status \in {"validated", "final"}

\* C7: every validation pass of a convolution that returns normally leaves
\* the output layout that the formulas of the shape inference give for the
\* input layout, the kernel, the subsampling and the padding flag, with the
\* output channels the node was configured with; a pass over a node that is
\* validated already leaves the layout it found.
C7_ConvolutionShape ==
    [][(kind = "conv" /\ Validated(conv'))
         => /\ GetWidth(conv'.m_sampleLayout) =
                  (IF conv.m_zeroPadding
                   THEN (InW - (conv.m_kernelWidth % 2)) \div conv.m_horizontalSubsample
                   ELSE (InW - conv.m_kernelWidth) \div conv.m_horizontalSubsample) + 1
            /\ GetHeight(conv'.m_sampleLayout) =
                  (IF conv.m_zeroPadding
                   THEN (InH - (conv.m_kernelHeight % 2)) \div conv.m_verticalSubsample
                   ELSE (InH - conv.m_kernelHeight) \div conv.m_verticalSubsample) + 1
            /\ GetNumChannels(conv'.m_sampleLayout) = GetNumChannels(conv.m_sampleLayout)
            /\ Validated(conv) => conv'.m_sampleLayout = conv.m_sampleLayout]_vars

\* A padded convolution with a step of 2 has passed its final validation
\* with an output narrower than its input.
C7_Witness ==
    /\ kind = "conv"
    /\ conv.status = "final"
    /\ conv.m_zeroPadding
    /\ conv.m_horizontalSubsample = 2
    /\ GetWidth(conv.m_sampleLayout) = 2
    /\ InW = 3

\* C8: a validated pooling operator has the output layout
\* ((inW - windowW) / strideH + 1, (inH - windowH) / strideV + 1, inC), its
\* cached sizes are the products of the extents of its input and of its
\* output layout, and its value has m_outputSizePerSample rows.
C8_PoolingShape ==
    (kind = "pool" /\ Validated(pool))
      => LET outW == (InW - pool.m_windowWidth) \div pool.m_horizontalSubsample + 1
             outH == (InH - pool.m_windowHeight) \div pool.m_verticalSubsample + 1
         IN /\ pool.m_sampleLayout = ImageLayoutWHC(outW, outH, InC)
            /\ pool.m_inputSizePerSample = InW * InH * InC
            /\ pool.m_outputSizePerSample = outW * outH * InC
            /\ GetNumRows(pool.value) = pool.m_outputSizePerSample

\* A pooling operator over two channels has passed its final validation
\* with more than one output position.
C8_Witness ==
    /\ kind = "pool"
    /\ pool.status = "final"
    /\ InC = 2
    /\ GetWidth(pool.m_sampleLayout) = 2
    /\ GetHeight(pool.m_sampleLayout) = 2

\* The configurations validation must refuse.
BadGeometry(hSub, vSub, width, height) ==
    hSub > width \/ vSub > height \/ InW < width \/ InH < height

\* C9: once Validate has run on a convolution or a pooling operator whose
\* subsampling exceeds its kernel (window), or whose input is smaller than
\* it, the operator has failed with InvalidArgument, its output layout is
\* still the one it was constructed with and its value and gradient have no
\* extents: it never reaches the state in which it is evaluated.
C9_BadGeometryRefused ==
    /\ (kind = "conv" /\ last.op = "Validate"
          /\ BadGeometry(conv.m_horizontalSubsample, conv.m_verticalSubsample,
                         conv.m_kernelWidth, conv.m_kernelHeight))
         => /\ conv.status = "InvalidArgument"
            /\ GetWidth(conv.m_sampleLayout) = 1 /\ GetHeight(conv.m_sampleLayout) = 1
            /\ conv.value = Empty /\ conv.gradient = Empty
    /\ (kind = "pool" /\ last.op = "Validate"
          /\ BadGeometry(pool.m_horizontalSubsample, pool.m_verticalSubsample,
                         pool.m_windowWidth, pool.m_windowHeight))
         => /\ pool.status = "InvalidArgument"
            /\ pool.m_sampleLayout = DefaultLayout
            /\ pool.value = Empty /\ pool.gradient = Empty

\* Validate has refused a convolution whose subsampling fits its kernel but
\* whose input is too narrow for it.
C9_Witness ==
    /\ kind = "conv"
    /\ last.op = "Validate"
    /\ conv.status = "InvalidArgument"
    /\ conv.m_horizontalSubsample <= conv.m_kernelWidth
    /\ conv.m_verticalSubsample <= conv.m_kernelHeight
    /\ InW < conv.m_kernelWidth
    /\ InH >= conv.m_kernelHeight

\* C10: a convolution that has passed its final validation has a weight of
\* exactly outChannels rows and kernelW * kernelH * inChannels columns, and a
\* final validation of a valid geometry over its rightly sized input ends in
\* a logic error only for a weight of another shape.
C10_WeightShape ==
    kind = "conv" =>
      LET rightShape ==
              /\ GetNumRows(weight.value) = GetNumChannels(conv.m_sampleLayout)
              /\ GetNumCols(weight.value) = conv.m_kernelWidth * conv.m_kernelHeight * InC
      IN /\ conv.status = "final" => rightShape
         /\ (conv.status = "LogicError" /\ GetNumRows(feature.value) = InW * InH * InC)
               => ~rightShape

\* A convolution with two output channels and a 2 x 2 kernel over two input
\* channels has passed its final validation.
C10_Witness ==
    /\ kind = "conv"
    /\ conv.status = "final"
    /\ GetNumRows(weight.value) = 2
    /\ GetNumCols(weight.value) = 8
    /\ conv.m_kernelWidth = 2 /\ conv.m_kernelHeight = 2


\* ------------------------------------------- claims about the evaluation

\* The sizes of the convolution, as the claims name them.
OutC == GetNumChannels(conv.m_sampleLayout)
OutSize == GetWidth(conv.m_sampleLayout) * GetHeight(conv.m_sampleLayout)
Budget == conv.m_maxTempMemSizeInSamples

\* The number of samples the last call got: the minibatch, or one frame.
CallBatch == IF last.fr = AllFrames THEN GetNumCols(feature.value) ELSE 1

\* min(B, M) with M = 0 meaning B, and ceil(B / subBatchSize).
TileSize(B, M) == IF M = 0 \/ M > B THEN B ELSE M
TileCount(B, M) == CHOOSE n \in 1..B : n * TileSize(B, M) >= B /\ (n - 1) * TileSize(B, M) < B

\* The calls since the last ForwardProp, that one first, and their names.
LastForward ==
    CHOOSE i \in 1..Len(hist) :
        /\ hist[i][1] = "ForwardProp"
        /\ \A j \in (i + 1)..Len(hist) : hist[j][1] /= "ForwardProp"
Cycle == [i \in 1..(Len(hist) - LastForward + 1) |-> hist[LastForward + i - 1][1]]

\* The last call ran the sub-batch loop (BackpropTo(0) may skip it).
Tiled ==
    \/ last.op \in {"ForwardProp", "BackpropTo1"}
    \/ last.op = "BackpropTo0" /\ last.iterations /= <<>>

\* The columns of the reshaped output [outC, outW * outH * B] that an
\* iteration of the forward loop wrote.
WrittenColumns(it) ==
    IF conv.m_1DConvolutionOnGPUSparse
    THEN (it.colStart * OutSize)..((it.colStart + it.colCount) * OutSize - 1)
    ELSE it.colStart..(it.colStart + it.colCount - 1)

\* C1: a call that runs the sub-batch loop over B samples under budget M
\* runs it ceil(B / min(B, M)) times (M = 0 standing for B); iteration i
\* takes the samples [i * subBatchSize, min(B, (i + 1) * subBatchSize)),
\* which are not empty and at most subBatchSize, and every sample lies in
\* exactly one of them.  On the generic path of the forward pass iteration i
\* writes the output columns from start * outW * outH, size * outW * outH of
\* them, and on either path every column of the output is written by
\* exactly one iteration.
C1_SubBatchTiling ==
    Tiled =>
      LET B == CallBatch
          sub == TileSize(B, Budget)
          its == last.iterations
      IN /\ Len(its) = TileCount(B, Budget)
         /\ \A i \in 1..Len(its) :
              /\ its[i].startSampleID = (i - 1) * sub
              /\ its[i].endSampleID = Min(B, i * sub)
              /\ its[i].startSampleID < its[i].endSampleID
              /\ its[i].endSampleID - its[i].startSampleID <= sub
         /\ \A sample \in 0..(B - 1) :
              Cardinality({i \in 1..Len(its) :
                  its[i].startSampleID <= sample /\ sample < its[i].endSampleID}) = 1
         /\ last.op = "ForwardProp" =>
              /\ ~conv.m_1DConvolutionOnGPUSparse =>
                   \A i \in 1..Len(its) :
                      /\ its[i].colStart = its[i].startSampleID * OutSize
                      /\ its[i].colCount = (its[i].endSampleID - its[i].startSampleID) * OutSize
              /\ \A col \in 0..(B * OutSize - 1) :
                   Cardinality({i \in 1..Len(its) : col \in WrittenColumns(its[i])}) = 1

\* A forward pass over three samples under a budget of two has run two
\* iterations, the second one over the one sample left.
C1_Witness ==
    /\ last.op = "ForwardProp"
    /\ CallBatch = 3
    /\ Budget = 2
    /\ Len(last.iterations) = 2
    /\ last.iterations[2].startSampleID = 2
    /\ last.iterations[2].endSampleID = 3
    /\ OutSize > 1

\* ForwardProp, BackpropTo(0) and BackpropTo(1) over the whole minibatch
\* under budget m, from the gradient buffers of the last forward pass.
RunCycle(m) ==
    LET n == [conv EXCEPT !.m_maxTempMemSizeInSamples = m, !.m_tempMatrix = Empty]
        f == ForwardPropS(n, conv.value, weight.value, feature.value, feature.sparseGPU)
        b0 == BackpropToOverWeight(f.node, conv.gradient, snap.weight, feature.value, FALSE)
        b1 == BackpropToOverInputFeature(b0.node, conv.gradient, snap.feature,
                                         weight.value, feature.value)
    IN [value |-> f.functionValues,
        weightGradient |-> b0.inputGradientValues,
        featureGradient |-> b1.inputGradientValues]

\* C2: after ForwardProp, BackpropTo(0) and BackpropTo(1), in this order,
\* over a whole minibatch, the output, the weight gradient and the input
\* gradient are those that the same three calls give under every other
\* budget: 0, 1, ..., the batch size and beyond.
C2_SubBatchInvariance ==
    (~recurrent /\ hist /= <<>> /\ Cycle = <<"ForwardProp", "BackpropTo0", "BackpropTo1">>)
      => \A m \in Budgets :
           RunCycle(m) = [value |-> conv.value,
                          weightGradient |-> weight.gradient,
                          featureGradient |-> feature.gradient]

\* The three calls have run over three samples of several output positions
\* under a budget of two, on the generic path.
C2_Witness ==
    /\ ~recurrent
    /\ hist /= <<>>
    /\ Cycle = <<"ForwardProp", "BackpropTo0", "BackpropTo1">>
    /\ GetNumCols(feature.value) = 3
    /\ Budget = 2
    /\ OutSize > 1
    /\ ~conv.m_1DConvolutionOnGPUSparse

\* C3: after a forward pass on the generic path, every column s of the
\* output it computed, seen as [outC, outW * outH], is the weight times the
\* packed form of column s of the input; and for the 4 x 4 input under the
\* 2 x 2 kernel with the weight [1, 0, 0, 0] the output at (ox, oy) is the
\* input at (ox, oy).
C3_ForwardIsConvolution ==
    (last.op = "ForwardProp" /\ ~conv.m_1DConvolutionOnGPUSparse)
      => /\ \A s \in 0..(GetNumCols(feature.value) - 1) :
              (last.fr = AllFrames \/ last.fr = s)
                => Reshape(ColumnSlice(conv.value, s, 1), OutC, OutSize)
                     = Multiply(weight.value, FALSE,
                                PackWith(conv, ColumnSlice(feature.value, s, 1)), FALSE)
         /\ (InW = 4 /\ InH = 4 /\ weight.value.data = <<1, 0, 0, 0>>)
              => /\ GetNumRows(conv.value) = 9
                 /\ \A ox \in 0..2, oy \in 0..2 :
                      At(conv.value, oy + 3 * ox, 0) = At(feature.value, oy + 4 * ox, 0)

\* The forward pass has run on the 4 x 4 example.
C3_Witness ==
    /\ last.op = "ForwardProp"
    /\ ~conv.m_1DConvolutionOnGPUSparse
    /\ InW = 4 /\ InH = 4
    /\ weight.value.data = <<1, 0, 0, 0>>
    /\ At(conv.value, 8, 0) = 11

\* The sum over the sub-batches i..num of the output gradient of the
\* sub-batch times the transposed packed input of the sub-batch, added to acc.
RECURSIVE SumOverSubBatches(_, _, _, _, _, _)
SumOverSubBatches(i, num, sub, dOutput, input, acc) ==
    IF i > num THEN acc
    ELSE LET start == (i - 1) * sub
             size == Min(GetNumCols(input), i * sub) - start
         IN SumOverSubBatches(i + 1, num, sub, dOutput, input,
                MultiplyAndAdd(ColumnSlice(dOutput, start * OutSize, size * OutSize), FALSE,
                               PackWith(conv, ColumnSlice(input, start, size)), TRUE, acc))

\* The output gradient of the frame range, seen as [outC, outW * outH * B].
ReshapedOutputGradient(fr) ==
    LET slice == ValueFor(conv.gradient, fr)
    IN Reshape(slice, OutC, OutSize * GetNumCols(slice))

\* C4: BackpropTo(0) leaves in the weight gradient what it found there plus
\* the sum over the sub-batches of the reshaped output gradient times the
\* transposed packed input; BackpropTo(1) leaves in the input gradient of
\* the frame range what it found there plus the transposed weight times the
\* reshaped output gradient, unpacked onto the input positions.
C4_GradientsAccumulate ==
    [][/\ (hist' /= hist /\ last'.op = "BackpropTo0") =>
            LET input == ValueFor(feature.value, last'.fr)
                B == GetNumCols(input)
            IN weight'.gradient =
                 SumOverSubBatches(1, TileCount(B, Budget), TileSize(B, Budget),
                                   ReshapedOutputGradient(last'.fr), input, weight.gradient)
       /\ (hist' /= hist /\ last'.op = "BackpropTo1") =>
            feature'.gradient =
              AssignFor(feature.gradient, last'.fr,
                  UnpackWith(conv,
                      Multiply(weight.value, TRUE, ReshapedOutputGradient(last'.fr), FALSE),
                      ValueFor(feature.gradient, last'.fr)))]_vars

\* The gradients that ForwardProp and one backward call alone leave, from
\* the gradient buffers of the last forward pass.
WeightGradientAlone ==
    LET n == [conv EXCEPT !.m_tempMatrix = Empty]
        f == ForwardPropS(n, conv.value, weight.value, feature.value, feature.sparseGPU)
    IN BackpropToOverWeight(f.node, conv.gradient, snap.weight, feature.value,
                            FALSE).inputGradientValues
FeatureGradientAlone ==
    LET n == [conv EXCEPT !.m_tempMatrix = Empty]
        f == ForwardPropS(n, conv.value, weight.value, feature.value, feature.sparseGPU)
    IN BackpropToOverInputFeature(f.node, conv.gradient, snap.feature, weight.value,
                                  feature.value).inputGradientValues

\* C5: after a forward pass over a whole minibatch, the weight gradient that
\* BackpropTo(0) leaves is the same whether BackpropTo(1) ran before it,
\* after it or not at all, and likewise the input gradient that
\* BackpropTo(1) leaves.
C5_GradientsIndependent ==
    (~recurrent /\ hist /= <<>>) =>
      /\ Cycle \in {<<"ForwardProp", "BackpropTo0">>,
                    <<"ForwardProp", "BackpropTo0", "BackpropTo1">>,
                    <<"ForwardProp", "BackpropTo1", "BackpropTo0">>}
           => weight.gradient = WeightGradientAlone
      /\ Cycle \in {<<"ForwardProp", "BackpropTo1">>,
                    <<"ForwardProp", "BackpropTo0", "BackpropTo1">>,
                    <<"ForwardProp", "BackpropTo1", "BackpropTo0">>}
           => feature.gradient = FeatureGradientAlone

\* C6: BackpropTo(0) runs no packing iteration, and so works on the packed
\* buffer it finds, exactly when the batch fits one sub-batch, the call is
\* over the whole minibatch and not one frame of a loop, and the last
\* forward pass did not take the sparse path; otherwise it packs the input
\* of every sub-batch anew.
C6_ReuseCondition ==
    last.op = "BackpropTo0" =>
      LET numSubBatches == TileCount(CallBatch, Budget)
          reuse == /\ numSubBatches = 1
                   /\ last.fr = AllFrames
                   /\ ~(InH = 1 /\ feature.sparseGPU)
      IN /\ (last.iterations = <<>>) <=> reuse
         /\ ~reuse => /\ Len(last.iterations) = numSubBatches
                      /\ \A i \in 1..numSubBatches : last.iterations[i].packed

\* BackpropTo(0) has reused the buffer in one state and has packed anew for
\* one frame of a loop in another; this one is the frame of a loop that
\* fits one sub-batch.
C6_Witness ==
    /\ last.op = "BackpropTo0"
    /\ last.fr /= AllFrames
    /\ TileCount(CallBatch, Budget) = 1
    /\ ~feature.sparseGPU
    /\ Len(last.iterations) = 1
    /\ last.iterations[1].packed

\* ----------------------------------------------- claims about Save, Load

\* The operator of the graph was read from the file that Save wrote.
Loaded == saved /= NoNode /\ file = <<>>

\* C11: Save writes the kernel or window width, its height, the horizontal
\* and the vertical subsample and, for a convolution, the output channels,
\* the padding flag and the memory budget, in this order; the operator that
\* Load fills from the file has these parameters as the saved one has them,
\* and once both are validated on the same input it has the output layout
\* of the saved one.
C11_SaveLoadRoundTrip ==
    /\ (kind = "conv" /\ file /= <<>>) =>
         file = <<WriteSizeT(saved.m_kernelWidth), WriteSizeT(saved.m_kernelHeight),
                  WriteSizeT(saved.m_horizontalSubsample), WriteSizeT(saved.m_verticalSubsample),
                  WriteSizeT(GetNumChannels(saved.m_sampleLayout)),
                  WriteBool(saved.m_zeroPadding),
                  WriteSizeT(saved.m_maxTempMemSizeInSamples)>>
    /\ (kind = "pool" /\ file /= <<>>) =>
         file = <<WriteSizeT(saved.m_windowWidth), WriteSizeT(saved.m_windowHeight),
                  WriteSizeT(saved.m_horizontalSubsample), WriteSizeT(saved.m_verticalSubsample)>>
    /\ (kind = "conv" /\ Loaded) =>
         /\ conv.m_kernelWidth = saved.m_kernelWidth
         /\ conv.m_kernelHeight = saved.m_kernelHeight
         /\ conv.m_horizontalSubsample = saved.m_horizontalSubsample
         /\ conv.m_verticalSubsample = saved.m_verticalSubsample
         /\ GetNumChannels(conv.m_sampleLayout) = GetNumChannels(saved.m_sampleLayout)
         /\ conv.m_zeroPadding = saved.m_zeroPadding
         /\ conv.m_maxTempMemSizeInSamples = saved.m_maxTempMemSizeInSamples
         /\ (Validated(conv) /\ Validated(saved)) => conv.m_sampleLayout = saved.m_sampleLayout
    /\ (kind = "pool" /\ Loaded) =>
         /\ pool.m_windowWidth = saved.m_windowWidth
         /\ pool.m_windowHeight = saved.m_windowHeight
         /\ pool.m_horizontalSubsample = saved.m_horizontalSubsample
         /\ pool.m_verticalSubsample = saved.m_verticalSubsample
         /\ (Validated(pool) /\ Validated(saved)) => pool.m_sampleLayout = saved.m_sampleLayout

\* A validated convolution with a kernel wider than high, a budget and
\* padding was saved, loaded and validated again.
C11_Witness ==
    /\ kind = "conv"
    /\ Loaded
    /\ Validated(saved)
    /\ Validated(conv)
    /\ conv.m_kernelWidth = 2
    /\ conv.m_kernelHeight = 1
    /\ conv.m_zeroPadding
    /\ conv.m_maxTempMemSizeInSamples = 2
    /\ GetWidth(conv.m_sampleLayout) > 1

\* ------------------------------------------------ claims about pooling

\* The geometry of the pooling operator of the graph.
PoolG ==
    PoolGeometry(GetNumChannels(pool.m_inputSampleLayout),
                 GetWidth(pool.m_inputSampleLayout), GetHeight(pool.m_inputSampleLayout),
                 pool.m_inputSizePerSample,
                 GetWidth(pool.m_sampleLayout), GetHeight(pool.m_sampleLayout),
                 pool.m_outputSizePerSample,
                 pool.m_windowWidth, pool.m_windowHeight,
                 pool.m_horizontalSubsample, pool.m_verticalSubsample)

\* The last two calls were a forward pass and the backward pass over the
\* same frames.
BackwardFollowsForward ==
    /\ kind = "pool"
    /\ Len(hist) >= 2
    /\ hist[Len(hist)] = <<"BackpropTo0", last.fr>>
    /\ hist[Len(hist) - 1] = <<"ForwardProp", last.fr>>

\* The samples of the frame range of the last call.
CallSamples ==
    IF last.fr = AllFrames THEN 0..(GetNumCols(feature.value) - 1) ELSE {last.fr}

\* The input element of sample s that is the maximum of the window of output
\* element p, the first one in storage order if several are.
SelectedByForward(p, s) ==
    LET v == WindowValues(feature.value, s, p, PoolG)
        k == CHOOSE k \in 1..Len(v) :
                 /\ \A j \in 1..Len(v) : v[j] <= v[k]
                 /\ \A j \in 1..(k - 1) : v[j] < v[k]
    IN WindowInput(p, k, PoolG)

\* What the backward pass added to input element i of sample s.
AddedGradient(i, s) == At(feature.gradient, i, s) - At(snap.feature, i, s)

\* C12: the backward pass of max pooling works on the output that the
\* forward pass left, the maximum of every window, and adds to every input
\* element the output gradients of exactly the windows of which the forward
\* pass selected it: none if it is the selected maximum of no window, the
\* sum if it is that of several; samples outside the frame range keep their
\* gradient.
C12_MaxPoolingArgmax ==
    (BackwardFollowsForward /\ pool.type = "MaxPooling") =>
      /\ \A s \in CallSamples, p \in 0..(pool.m_outputSizePerSample - 1) :
           At(pool.value, p, s) = At(feature.value, SelectedByForward(p, s), s)
      /\ \A s \in CallSamples, i \in 0..(pool.m_inputSizePerSample - 1) :
           AddedGradient(i, s) =
             SumTo([q \in 1..pool.m_outputSizePerSample |->
                       IF SelectedByForward(q - 1, s) = i
                       THEN At(pool.gradient, q - 1, s) ELSE 0],
                   pool.m_outputSizePerSample)
      /\ \A s \in 0..(GetNumCols(feature.value) - 1), i \in 0..(pool.m_inputSizePerSample - 1) :
           s \notin CallSamples => AddedGradient(i, s) = 0

\* The backward pass of max pooling has run on a window in which two
\* elements are the maximum, with a gradient to route, and on an element
\* that two windows selected.
C12_Witness ==
    /\ BackwardFollowsForward
    /\ pool.type = "MaxPooling"
    /\ \E s \in CallSamples, p \in 0..(pool.m_outputSizePerSample - 1) :
         /\ At(pool.gradient, p, s) /= 0
         /\ Cardinality({k \in 1..WindowSize(PoolG) :
                At(feature.value, WindowInput(p, k, PoolG), s) = At(pool.value, p, s)}) >= 2
    /\ \E s \in CallSamples, p \in 0..(pool.m_outputSizePerSample - 1),
          q \in 0..(pool.m_outputSizePerSample - 1) :
         p /= q /\ SelectedByForward(p, s) = SelectedByForward(q, s)

\* C13: the backward pass of average pooling adds to every input element,
\* for every window that holds it, the output gradient of the window divided
\* by the number of elements of the window; the shares of a window add up to
\* its output gradient, and what a sample receives in all adds up to the
\* output gradients of the sample.
C13_AveragePoolingConservation ==
    (BackwardFollowsForward /\ pool.type = "AveragePooling") =>
      LET n == pool.m_windowWidth * pool.m_windowHeight
          share(q, s) == At(pool.gradient, q, s) \div n
      IN /\ \A s \in CallSamples, q \in 0..(pool.m_outputSizePerSample - 1) :
              n * share(q, s) = At(pool.gradient, q, s)
         /\ \A s \in CallSamples, i \in 0..(pool.m_inputSizePerSample - 1) :
              AddedGradient(i, s) =
                SumTo([q \in 1..pool.m_outputSizePerSample |->
                          IF \E k \in 1..n : WindowInput(q - 1, k, PoolG) = i
                          THEN share(q - 1, s) ELSE 0],
                      pool.m_outputSizePerSample)
         /\ \A s \in CallSamples :
              SumTo([i \in 1..pool.m_inputSizePerSample |-> AddedGradient(i - 1, s)],
                    pool.m_inputSizePerSample)
                = SumTo([q \in 1..pool.m_outputSizePerSample |-> At(pool.gradient, q - 1, s)],
                        pool.m_outputSizePerSample)

\* The backward pass of average pooling has run on windows of four elements
\* that overlap, with gradients to spread.
C13_Witness ==
    /\ BackwardFollowsForward
    /\ pool.type = "AveragePooling"
    /\ pool.m_windowWidth * pool.m_windowHeight = 4
    /\ pool.m_outputSizePerSample >= 2
    /\ \E s \in CallSamples : At(pool.gradient, 0, s) /= 0 /\ At(pool.gradient, 1, s) /= 0


\* C14: once a call has returned, the value and the gradient of the node
\* have outC * outW * outH rows and one column per sample of the minibatch,
\* as many elements as that, and the gradient holds the elements its
\* consumers wrote: the reshaping to outC rows inside a call, on the sparse
\* path as well, is undone and loses nothing.
HasOutputShape(M) ==
    /\ GetNumRows(M) = OutC * OutSize
    /\ GetNumCols(M) = GetNumCols(feature.value)
    /\ Len(M.data) = OutC * OutSize * GetNumCols(feature.value)
C14_ReshapeBookkeeping ==
    (kind = "conv" /\ Validated(conv) /\ hist /= <<>>)
        => /\ HasOutputShape(conv.value)
           /\ HasOutputShape(conv.gradient)
           /\ conv.gradient = GenMatrix(OutC * OutSize, GetNumCols(feature.value), 3)
C14_Witness ==
    /\ kind = "conv"
    /\ Validated(conv)
    /\ OutC >= 2
    /\ Len(hist) >= 3
    /\ {hist[i][1] : i \in 1..Len(hist)} = {"ForwardProp", "BackpropTo0", "BackpropTo1"}
    /\ GetNumCols(feature.value) >= 2
    /\ Len(last.iterations) >= 2


\* C15: every sub-batch that packs its input or its gradient sizes the
\* packed buffer to kW * kH * inC rows and outW * outH columns per sample of
\* the sub-batch, so with a budget M > 0 the buffer never has more than
\* outW * outH * min(B, M) columns; the buffer a call leaves has the extents
\* of its last sub-batch.
UsesPackedBuffer ==
    /\ Tiled
    /\ ~(last.op = "ForwardProp" /\ conv.m_1DConvolutionOnGPUSparse)
C15_PackedBufferSize ==
    (kind = "conv" /\ Validated(conv) /\ UsesPackedBuffer)
        => /\ \A i \in DOMAIN last.iterations :
                LET it == last.iterations[i]
                IN /\ it.tempCols = OutSize * (it.endSampleID - it.startSampleID)
                   /\ Budget > 0 => it.tempCols <= OutSize * Min(CallBatch, Budget)
           /\ GetNumRows(conv.m_tempMatrix) = conv.m_kernelWidth * conv.m_kernelHeight * InC
           /\ GetNumCols(conv.m_tempMatrix) = last.iterations[Len(last.iterations)].tempCols
C15_Witness ==
    /\ kind = "conv"
    /\ Validated(conv)
    /\ last.op = "BackpropTo1"
    /\ Budget = 2
    /\ CallBatch = 3
    /\ Len(last.iterations) = 2
    /\ GetNumCols(conv.m_tempMatrix) = OutSize


\* C16: a convolution that passed its final validation and takes the sparse
\* 1-D path (input height 1, sparse input on the accelerator) passes the
\* check of that path on every frame range, so ForwardProp raises no
\* LogicError; and were the weight to have other columns, the error would
\* leave the first sub-batch with no iteration done and the output as it
\* was.
TakesSparsePath == GetHeight(conv.m_inputSampleLayout) = 1 /\ feature.sparseGPU
WiderWeight == Zeros(GetNumRows(weight.value), GetNumCols(weight.value) + 1)
C16_SparseCheckUnreachable ==
    (kind = "conv" /\ conv.status = "final" /\ TakesSparsePath)
        => /\ ~SparseKernelMismatch(conv, weight.value)
           /\ \A fr \in FrameRanges :
                LET functionValues == ValueFor(conv.value, fr)
                    input1 == ValueFor(feature.value, fr)
                    ok == ForwardPropS(conv, functionValues, weight.value, input1, feature.sparseGPU)
                    bad == ForwardPropS(conv, functionValues, WiderWeight, input1, feature.sparseGPU)
                IN /\ ok.error = "none"
                   /\ Len(ok.iterations) = TileCount(GetNumCols(input1), Budget)
                   /\ bad.error = "LogicError"
                   /\ bad.iterations = <<>>
                   /\ bad.functionValues = functionValues
C16_Witness ==
    /\ kind = "conv"
    /\ conv.status = "final"
    /\ TakesSparsePath
    /\ conv.m_1DConvolutionOnGPUSparse
    /\ last.op = "ForwardProp"
    /\ Len(last.iterations) >= 2
    /\ \A i \in DOMAIN last.iterations : ~last.iterations[i].packed


\* C17: whenever BackpropTo(0) takes the packed buffer as it finds it, the
\* buffer is the packed form of the whole minibatch of the call, whatever
\* calls of ForwardProp, SetmMaxTempMemSizeInSamples and BackpropTo went
\* before.
ReusedPackedBuffer ==
    /\ last.op = "BackpropTo0"
    /\ last.iterations = <<>>
    /\ GetNumCols(feature.value) >= 1
C17_ReusedBufferIsWholeBatch ==
    (kind = "conv" /\ ReusedPackedBuffer)
        => conv.m_tempMatrix = PackWith(conv, feature.value)


\* C18: a validated convolution without zero padding, and a validated
\* pooling operator, have an output of at least one column and one row, and
\* the last window in each direction ends inside the input:
\* (outW - 1) * strideH + kernelW <= inW and (outH - 1) * strideV + kernelH <= inH.
WindowsInside(out, width, height, hSub, vSub) ==
    /\ GetWidth(out) >= 1
    /\ GetHeight(out) >= 1
    /\ (GetWidth(out) - 1) * hSub + width <= InW
    /\ (GetHeight(out) - 1) * vSub + height <= InH
C18_WindowsInsideInput ==
    /\ (kind = "conv" /\ Validated(conv) /\ ~conv.m_zeroPadding)
           => WindowsInside(conv.m_sampleLayout, conv.m_kernelWidth, conv.m_kernelHeight,
                            conv.m_horizontalSubsample, conv.m_verticalSubsample)
    /\ (kind = "pool" /\ Validated(pool))
           => WindowsInside(pool.m_sampleLayout, pool.m_windowWidth, pool.m_windowHeight,
                            pool.m_horizontalSubsample, pool.m_verticalSubsample)
C18_Witness ==
    /\ kind = "conv"
    /\ Validated(conv)
    /\ ~conv.m_zeroPadding
    /\ conv.m_horizontalSubsample = 2
    /\ (GetWidth(conv.m_sampleLayout) - 1) * conv.m_horizontalSubsample + conv.m_kernelWidth < InW
    /\ GetHeight(conv.m_sampleLayout) = 2


\* C19: every call of ForwardProp and BackpropTo returns normally, for
\* every batch size B >= 0 and every budget: the division that counts the
\* sub-batches does not trap, the loop runs ceil(B / subBatchSize) times,
\* and on an empty batch it does not run at all.
EvaluationCalls == {"ForwardProp", "BackpropTo0", "BackpropTo1"}
C19_CallsComplete ==
    kind = "conv"
        => /\ conv.status /= "SIGFPE"
           /\ (last.op \in EvaluationCalls /\ conv.status = "final")
                  => IF GetNumCols(feature.value) = 0
                     THEN last.iterations = <<>>
                     ELSE Tiled => Len(last.iterations) = TileCount(GetNumCols(feature.value), Budget)

=============================================================================
